---- MODULE Spec2Model ----
(***************************************************************************)
(* Model of the CNPJ ETL pipeline: the persisted stage state               *)
(* (src/settings.py ProcessState, src/state.py PipelineState), the two     *)
(* orchestrators (src/__main__.py, main.py) and the chunk loader           *)
(* (src/database_loader.py).                                               *)
(***************************************************************************)
EXTENDS Integers, Sequences, FiniteSets, TLC

VARIABLES
    data,       \* ProcessState.data (state.json): target_date, stage, status
    ret,        \* the last ProcessState call and what it returned
    runs,       \* runs.json: run key -> stage -> status
    frontend,   \* the entry point in use: "module" (python -m src) or "script" (main.py)
    cfg_target, \* settings.target_date, from the environment
    pc,         \* where the running invocation is
    inv,        \* the invocation's arguments and locals
    statuses,   \* the stage statuses of the run when the invocation began
    calls,      \* the stage functions called in this invocation, in call order
    skipped,    \* the stages this invocation skipped
    settings,   \* the loader's settings: strictness, gates, repair level
    db,         \* the committed content of the database tables
    conn,       \* the psycopg2 connection: open transaction, commit and rollback counts
    DOMAIN_CACHE, \* database_loader.DOMAIN_CACHE: (table, column) -> set of codes
    lpc,        \* where run_loader / process_and_load_file is
    chunk,      \* the loop locals of process_and_load_file for the chunk in hand
    totals,     \* total_rows, chunks_processed, quality_gate_chunks, rows read
    files,      \* telemetry and quarantine JSONL lines and the table summary
    error,      \* the exception that left process_and_load_file
    hist,       \* per chunk read: the chunk after repair, its telemetry, its fate
    processing, \* run_loader's processing_order still to do, and the tables done
    call,       \* a call of one of the pure functions: its argument and its result
    downloader, \* the AsyncDownloader: token bucket and circuit breaker
    tasks,      \* the download tasks: where each is in download_file or the limiter
    dest_dir,   \* settings.compressed_dir: the state of each task's destination file
    remote,     \* what the remote site and the network can answer in this run
    now         \* time.monotonic(), in units of 1 / rate_limit seconds, counted
                \* from the limiter's last refill

psVars == <<data, ret>>

runVars == <<runs, frontend, cfg_target, pc, inv, statuses, calls, skipped>>

loadVars == <<settings, db, conn, DOMAIN_CACHE, lpc, chunk, totals, files, error, hist,
              processing>>

dlVars == <<downloader, tasks, dest_dir, remote, now>>

fnVars == <<call, downloader, tasks, dest_dir, remote, now>>

vars == <<data, ret, runs, frontend, cfg_target, pc, inv, statuses, calls, skipped,
          settings, db, conn, DOMAIN_CACHE, lpc, chunk, totals, files, error, hist,
          processing, call, downloader, tasks, dest_dir, remote, now>>

\* Python None, an absent JSON key
None == "None"

\* Release identifiers the remote site can list (YYYY-MM folders)
Releases == {"2025-10", "2025-11"}

\* settings.py PipelineStep: the stage names, in pipeline order
order == <<"check", "download", "extract", "consolidate", "load", "constraints">>

PipelineStep == {order[i] : i \in 1..Len(order)}

\* settings.py StepStatus
StepStatus == {"completed", "failed", "running"}

\* A stage name a state.json written by something else may hold
ForeignStage == "import"

\* list.index: the position of x in seq, 0 standing for ValueError
Index(seq, x) ==
    IF \E i \in 1..Len(seq) : seq[i] = x
    THEN CHOOSE i \in 1..Len(seq) : seq[i] = x
    ELSE 0

\* ProcessState._load when state.json does not exist
EmptyData == [target_date |-> None, stage |-> None, status |-> None]

\* ---------------------------------------------------------------------------
\* ProcessState (src/settings.py)

\* a should_skip that also skips the stage that is stored but not completed
should_skip_ge(d, current_step) ==
    /\ d.target_date # None
    /\ d.stage # None
    /\ Index(order, current_step) # 0
    /\ Index(order, d.stage) # 0
    /\ Index(order, d.stage) >= Index(order, current_step)

\* ProcessState.should_skip
should_skip(d, current_step) ==
    IF d.target_date = None THEN FALSE
    ELSE IF d.stage = None THEN FALSE
    ELSE LET current_index == Index(order, current_step)
             saved_index == Index(order, d.stage)
         IN  IF current_index = 0 \/ saved_index = 0 THEN FALSE
             ELSE IF saved_index > current_index THEN TRUE
             ELSE IF saved_index = current_index /\ d.status = "completed" THEN TRUE
             ELSE FALSE

\* a setter that changes the date and keeps the stored stage
target_date_setter_keep(d, value) ==
    IF value # d.target_date THEN [d EXCEPT !.target_date = value] ELSE d

\* ProcessState.target_date setter
target_date_setter(d, value) ==
    IF value # d.target_date
    THEN [target_date |-> value, stage |-> None, status |-> None]
    ELSE d

\* ProcessState.update
ProcessState_update(d, step, status) ==
    [d EXCEPT !.stage = step, !.status = status]

\* state.json as ProcessState._load can find it: absent, or left by another
\* version of the program with a stage name this one does not know
InitData ==
    {EmptyData} \cup
    {[target_date |-> t, stage |-> ForeignStage, status |-> s] :
        t \in Releases, s \in {"completed", "running"}}

\* the downloader while run_download has not been called
DownloadIdle ==
    /\ downloader = [rate_limit |-> 0, tokens |-> 0, last_token_update |-> 0,
                     consecutive_errors |-> 0, circuit_open |-> FALSE, opened |-> 0]
    /\ tasks = <<>>
    /\ dest_dir = <<>>
    /\ remote = [head |-> {}, get |-> {}, stream |-> {}]
    /\ now = 0

\* the orchestrator's variables while only ProcessState is exercised
RunIdle ==
    /\ runs = [k \in {"session"} |-> [s \in PipelineStep |-> None]]
    /\ frontend = "none"
    /\ cfg_target = ""
    /\ pc = "idle"
    /\ inv = [entry |-> None]
    /\ statuses = [found |-> FALSE, m |-> [s \in PipelineStep |-> None]]
    /\ calls = <<>>
    /\ skipped = {}

\* the loader's variables while run_loader has not been called, and no
\* function call in hand
LoadIdle ==
    /\ settings = [strict_fk_validation |-> FALSE, enable_quality_gates |-> TRUE,
                   auto_repair_level |-> "basic"]
    /\ db = [naturezas_juridicas |-> {}, qualificacoes_socios |-> {}, empresas |-> <<>>]
    /\ conn = [open |-> FALSE, pending |-> <<>>, commits |-> 0, rollbacks |-> 0]
    /\ DOMAIN_CACHE = [k \in {} |-> {}]
    /\ lpc = "idle"
    /\ chunk = [i |-> 0, rows |-> <<>>]
    /\ totals = [total_rows |-> 0, chunks_processed |-> 0, quality_gate_chunks |-> 0,
                 read |-> 0, short |-> FALSE]
    /\ files = [telemetry |-> <<>>, quarantine |-> <<>>, summary |-> <<>>]
    /\ error = [type |-> "none"]
    /\ hist = <<>>
    /\ processing = [order |-> <<>>, loaded |-> {}]
    /\ call = [fn |-> "none", arg |-> <<>>, out |-> <<>>, done |-> FALSE]
    /\ DownloadIdle

InitPS ==
    /\ data \in InitData
    /\ ret = [op |-> "init", arg |-> None, val |-> FALSE]
    /\ RunIdle
    /\ LoadIdle

SetTargetDate(value) ==
    /\ data' = target_date_setter(data, value)
    /\ ret' = [op |-> "target_date", arg |-> value, val |-> (value # data.target_date)]
    /\ UNCHANGED runVars
    /\ UNCHANGED <<fnVars, loadVars>>

Update(step, status) ==
    /\ data' = ProcessState_update(data, step, status)
    /\ ret' = [op |-> "update", arg |-> step, val |-> FALSE]
    /\ UNCHANGED runVars
    /\ UNCHANGED <<fnVars, loadVars>>

ShouldSkip(step) ==
    /\ ret' = [op |-> "should_skip", arg |-> step, val |-> should_skip(data, step)]
    /\ UNCHANGED data
    /\ UNCHANGED runVars
    /\ UNCHANGED <<fnVars, loadVars>>

NextPS ==
    \/ \E value \in Releases : SetTargetDate(value)
    \/ \E step \in PipelineStep, status \in StepStatus : Update(step, status)
    \/ \E step \in PipelineStep : ShouldSkip(step)

SpecPS == InitPS /\ [][NextPS]_vars

\* ---------------------------------------------------------------------------
\* Run state file (src/state.py)

\* state.py STAGES: the stages a new run record starts with
STAGES == <<"check", "download", "extract", "consolidate", "load">>

\* __main__.py PIPELINE_MAP: the stage functions, in execution order
PIPELINE_MAP == <<"download", "extract", "consolidate", "load", "constraints">>

PipelineStages == {PIPELINE_MAP[i] : i \in 1..Len(PIPELINE_MAP)}

\* main.py cmd_full: the stage functions it calls, in order
FULL_STAGES == <<"download", "extract", "consolidate", "load">>

\* a date that has no record in runs.json: no stage has a status
NoRun == [s \in PipelineStep |-> None]

\* statuses when no invocation has read them
NoStatuses == [found |-> FALSE, m |-> NoRun]

\* PipelineState.date: get_run_for_date() finds no state file
SessionKey == "session"

RunKeys == {SessionKey} \cup Releases

\* the record start_run and mark_stage create for a new date
PendingMap ==
    [s \in PipelineStep |-> IF Index(STAGES, s) # 0 THEN "pending" ELSE None]

\* state.py start_run
start_run(d, date) ==
    IF d[date] = NoRun THEN [d EXCEPT ![date] = PendingMap] ELSE d

\* state.py mark_stage
mark_stage(d, date, stage, status) ==
    [d EXCEPT ![date] = [start_run(d, date)[date] EXCEPT ![stage] = status]]

\* dict.get(step, "pending") on the record of a date
StatusOf(d, date, step) ==
    IF d[date] = NoRun \/ d[date][step] = None THEN "pending" ELSE d[date][step]

\* a should_skip that skips every stage once started
PipelineState_should_skip_started(d, date, step) ==
    StatusOf(d, date, step) # "pending"

\* a should_skip that compares the status with a word never recorded
PipelineState_should_skip_done(d, date, step) ==
    StatusOf(d, date, step) = "done"

\* PipelineState.should_skip
PipelineState_should_skip(d, date, step) ==
    StatusOf(d, date, step) = "completed"

\* PipelineState.update
PipelineState_update(d, date, step, status) ==
    mark_stage(d, date, step, status)

\* print_status(date, return_map=True): the record of the date, None (found is
\* false) if it has none
print_status(d, date) ==
    [found |-> d[date] # NoRun, m |-> d[date]]

\* ---------------------------------------------------------------------------
\* check_updates (src/check_update.py)

\* what check_updates returns for the latest remote release: None when it is the
\* stored target date, else the release
check_updates_result(d, latest_remote) ==
    IF latest_remote = d.target_date THEN None ELSE latest_remote

\* what check_updates stores: the new release through the target_date setter
check_updates_data(d, latest_remote) ==
    IF latest_remote = d.target_date THEN d ELSE target_date_setter(d, latest_remote)

\* ---------------------------------------------------------------------------
\* The orchestrators (src/__main__.py, main.py)

\* how a stage function can end: it returns, raises an Exception, is interrupted
\* (KeyboardInterrupt), or the process is killed while it runs
StageResults == {"return", "raise", "interrupt", "killed"}

Bool == {TRUE, FALSE}

NoInv == [entry |-> None]

InitRun ==
    /\ data = EmptyData
    /\ ret = [op |-> "init", arg |-> None, val |-> FALSE]
    /\ runs = [k \in RunKeys |-> NoRun]
    /\ frontend \in {"module", "script"}
    /\ cfg_target \in IF frontend = "script" THEN Releases \cup {""} ELSE {""}
    /\ pc = "idle"
    /\ inv = NoInv
    /\ statuses = NoStatuses
    /\ calls = <<>>
    /\ skipped = {}
    /\ LoadIdle

\* the process ends: its locals are gone, the files stay
Exit ==
    /\ pc = "done"
    /\ pc' = "idle"
    /\ inv' = NoInv
    /\ statuses' = NoStatuses
    /\ calls' = <<>>
    /\ skipped' = {}
    /\ UNCHANGED <<fnVars, loadVars, data, ret, runs, frontend, cfg_target>>

\* python -m src [--resume] [--force] [--dry-run]: main() up to the stage loop of
\* run_pipeline; latest_remote is None when the remote site cannot be read
StartPipeline(resume, force, dry_run, latest_remote) ==
    /\ frontend = "module"
    /\ pc = "idle"
    /\ LET runs1 == start_run(runs, SessionKey)
           date == IF latest_remote = None THEN None
                   ELSE check_updates_result(data, latest_remote)
           stop == \/ latest_remote = None
                   \/ date = None /\ ~resume /\ ~force
                   \/ dry_run
       IN  /\ runs' = runs1
           /\ data' = IF latest_remote = None THEN data
                      ELSE check_updates_data(data, latest_remote)
           /\ inv' = [entry |-> "pipeline", resume |-> resume, force |-> force,
                      last_processed |-> data.target_date, date |-> date, i |-> 1]
           /\ statuses' = print_status(runs1, SessionKey)
           /\ pc' = IF stop THEN "done" ELSE "pipeline"
    /\ calls' = <<>>
    /\ skipped' = {}
    /\ UNCHANGED <<fnVars, loadVars, ret, frontend, cfg_target>>

\* the same without the override by force
should_run_resume(resume, force, skip) == ~(resume /\ skip)

\* run_pipeline's should_run: false when resuming a stage to skip, unless
\* force is given
should_run(resume, force, skip) == IF force THEN TRUE ELSE ~(resume /\ skip)

\* run_pipeline: the stage is skipped
SkipStage ==
    /\ pc = "pipeline"
    /\ inv.i <= Len(PIPELINE_MAP)
    /\ LET step == PIPELINE_MAP[inv.i]
       IN  /\ ~should_run(inv.resume, inv.force,
                          PipelineState_should_skip(runs, SessionKey, step))
           /\ skipped' = skipped \cup {step}
    /\ inv' = [inv EXCEPT !.i = inv.i + 1]
    /\ UNCHANGED <<fnVars, loadVars, data, ret, runs, frontend, cfg_target, pc, statuses, calls>>

\* run_pipeline: the stage is recorded running and its function is called
BeginStage ==
    /\ pc = "pipeline"
    /\ inv.i <= Len(PIPELINE_MAP)
    /\ LET step == PIPELINE_MAP[inv.i]
       IN  /\ should_run(inv.resume, inv.force,
                         PipelineState_should_skip(runs, SessionKey, step))
           /\ runs' = PipelineState_update(runs, SessionKey, step, "running")
           /\ calls' = Append(calls, step)
    /\ pc' = "running"
    /\ UNCHANGED <<fnVars, loadVars, data, ret, frontend, cfg_target, inv, statuses, skipped>>

\* run_pipeline: the stage function ends
EndStage(result) ==
    /\ pc = "running"
    /\ LET step == PIPELINE_MAP[inv.i]
       IN  runs' = CASE result = "return" ->
                         PipelineState_update(runs, SessionKey, step, "completed")
                     [] result \in {"raise", "interrupt"} ->
                         PipelineState_update(runs, SessionKey, step, "failed")
                     [] OTHER -> runs
    /\ pc' = IF result = "return" THEN "pipeline" ELSE "done"
    /\ inv' = IF result = "return" THEN [inv EXCEPT !.i = inv.i + 1] ELSE inv
    /\ UNCHANGED <<fnVars, loadVars, data, ret, frontend, cfg_target, statuses, calls, skipped>>

\* run_pipeline: every stage was run or skipped
FinishPipeline ==
    /\ pc = "pipeline"
    /\ inv.i > Len(PIPELINE_MAP)
    /\ pc' = "done"
    /\ UNCHANGED <<fnVars, loadVars, data, ret, runs, frontend, cfg_target, inv, statuses, calls, skipped>>

\* python -m src --step check
StepCheck(latest_remote) ==
    /\ frontend = "module"
    /\ pc = "idle"
    /\ runs' = start_run(runs, SessionKey)
    /\ data' = IF latest_remote = None THEN data
               ELSE check_updates_data(data, latest_remote)
    /\ inv' = [entry |-> "step", step |-> "check"]
    /\ statuses' = print_status(runs', SessionKey)
    /\ pc' = "done"
    /\ calls' = <<>>
    /\ skipped' = {}
    /\ UNCHANGED <<fnVars, loadVars, ret, frontend, cfg_target>>

\* python -m src --step <stage>: the stage is recorded running and its function called
BeginStep(step) ==
    /\ frontend = "module"
    /\ pc = "idle"
    /\ runs' = PipelineState_update(start_run(runs, SessionKey), SessionKey, step, "running")
    /\ inv' = [entry |-> "step", step |-> step]
    /\ statuses' = print_status(start_run(runs, SessionKey), SessionKey)
    /\ pc' = "step_running"
    /\ calls' = <<step>>
    /\ skipped' = {}
    /\ UNCHANGED <<fnVars, loadVars, data, ret, frontend, cfg_target>>

\* python -m src --step <stage>: the stage function ends
EndStep(result) ==
    /\ pc = "step_running"
    /\ runs' = CASE result = "return" ->
                      PipelineState_update(runs, SessionKey, inv.step, "completed")
                 [] result \in {"raise", "interrupt"} ->
                      PipelineState_update(runs, SessionKey, inv.step, "failed")
                 [] OTHER -> runs
    /\ pc' = "done"
    /\ UNCHANGED <<fnVars, loadVars, data, ret, frontend, cfg_target, inv, statuses, calls, skipped>>

\* main.py cmd_check
CmdCheck(latest_remote) ==
    /\ frontend = "script"
    /\ pc = "idle"
    /\ LET runs1 == start_run(runs, SessionKey)
           date == IF latest_remote = None THEN None
                   ELSE check_updates_result(data, latest_remote)
       IN  /\ runs' = IF date # None THEN mark_stage(start_run(runs1, date), date, "check", "completed")
                      ELSE runs1
           /\ data' = IF latest_remote = None THEN data
                      ELSE check_updates_data(data, latest_remote)
           /\ inv' = [entry |-> "check", date |-> date]
    /\ statuses' = NoStatuses
    /\ pc' = "done"
    /\ calls' = <<>>
    /\ skipped' = {}
    /\ UNCHANGED <<fnVars, loadVars, ret, frontend, cfg_target>>

\* main.py cmd_download, cmd_extract, cmd_consolidate, cmd_load
CmdStage(stage, result) ==
    /\ frontend = "script"
    /\ pc = "idle"
    /\ LET runs1 == start_run(runs, SessionKey)
       IN  runs' = IF result = "return" /\ cfg_target # ""
                   THEN mark_stage(runs1, cfg_target, stage, "completed")
                   ELSE runs1
    /\ inv' = [entry |-> "cmd", step |-> stage]
    /\ statuses' = NoStatuses
    /\ pc' = "done"
    /\ calls' = <<stage>>
    /\ skipped' = {}
    /\ UNCHANGED <<fnVars, loadVars, data, ret, frontend, cfg_target>>

\* the statuses map of cmd_full when there is no current date: {}
EmptyStatuses == [found |-> TRUE, m |-> NoRun]

\* statuses.get(stage) in cmd_full
StatusesGet(st, stage) == st.m[stage]

\* main.py cmd_full up to its first stage
StartFull(resume, dry_run, latest_remote) ==
    /\ frontend = "script"
    /\ pc = "idle"
    /\ LET runs1 == start_run(runs, SessionKey)
           date == IF latest_remote = None THEN None
                   ELSE check_updates_result(data, latest_remote)
           runs2 == IF date # None
                    THEN mark_stage(start_run(runs1, date), date, "check", "completed")
                    ELSE runs1
           current == IF date # None THEN date
                      ELSE IF cfg_target # "" THEN cfg_target ELSE None
           stop == \/ latest_remote = None
                   \/ date = None /\ ~resume
                   \/ dry_run
       IN  /\ runs' = IF latest_remote = None \/ (date = None /\ ~resume) THEN runs1 ELSE runs2
           /\ data' = IF latest_remote = None THEN data
                      ELSE check_updates_data(data, latest_remote)
           /\ inv' = [entry |-> "full", resume |-> resume, force |-> FALSE,
                      last_processed |-> data.target_date, date |-> date,
                      current |-> current, i |-> 1]
           /\ statuses' = IF stop THEN NoStatuses
                          ELSE IF current = None THEN EmptyStatuses
                          ELSE print_status(runs2, current)
           /\ pc' = IF stop THEN "done" ELSE "full"
    /\ calls' = <<>>
    /\ skipped' = {}
    /\ UNCHANGED <<fnVars, loadVars, ret, frontend, cfg_target>>

\* cmd_full: statuses is None (the current date has no record) and --resume
\* reads statuses.get: AttributeError
FullCrash ==
    /\ pc = "full"
    /\ inv.i <= Len(FULL_STAGES)
    /\ inv.resume /\ ~statuses.found
    /\ pc' = "done"
    /\ UNCHANGED <<fnVars, loadVars, data, ret, runs, frontend, cfg_target, inv, statuses, calls, skipped>>

\* cmd_full: the stage is skipped
FullSkip ==
    /\ pc = "full"
    /\ inv.i <= Len(FULL_STAGES)
    /\ inv.resume /\ statuses.found
    /\ StatusesGet(statuses, FULL_STAGES[inv.i]) = "completed"
    /\ skipped' = skipped \cup {FULL_STAGES[inv.i]}
    /\ inv' = [inv EXCEPT !.i = inv.i + 1]
    /\ UNCHANGED <<fnVars, loadVars, data, ret, runs, frontend, cfg_target, pc, statuses, calls>>

\* cmd_full: the stage function is called, and recorded completed when it returns
FullStage(result) ==
    /\ pc = "full"
    /\ inv.i <= Len(FULL_STAGES)
    /\ \/ ~inv.resume
       \/ statuses.found /\ StatusesGet(statuses, FULL_STAGES[inv.i]) # "completed"
    /\ calls' = Append(calls, FULL_STAGES[inv.i])
    /\ runs' = IF result = "return" /\ inv.current # None
               THEN mark_stage(runs, inv.current, FULL_STAGES[inv.i], "completed")
               ELSE runs
    /\ pc' = IF result = "return" THEN "full" ELSE "done"
    /\ inv' = IF result = "return" THEN [inv EXCEPT !.i = inv.i + 1] ELSE inv
    /\ UNCHANGED <<fnVars, loadVars, data, ret, frontend, cfg_target, statuses, skipped>>

\* cmd_full: every stage was run or skipped
FinishFull ==
    /\ pc = "full"
    /\ inv.i > Len(FULL_STAGES)
    /\ pc' = "done"
    /\ UNCHANGED <<fnVars, loadVars, data, ret, runs, frontend, cfg_target, inv, statuses, calls, skipped>>

\* the remote site's answer: the latest release, or None when it cannot be read
RemoteAnswers == Releases \cup {None}

NextRun ==
    \/ Exit
    \/ \E resume \in Bool, force \in Bool, dry_run \in Bool, latest \in RemoteAnswers :
         StartPipeline(resume, force, dry_run, latest)
    \/ SkipStage
    \/ BeginStage
    \/ \E result \in StageResults : EndStage(result)
    \/ FinishPipeline
    \/ \E latest \in RemoteAnswers : StepCheck(latest)
    \/ \E step \in PipelineStages : BeginStep(step)
    \/ \E result \in StageResults : EndStep(result)
    \/ \E latest \in RemoteAnswers : CmdCheck(latest)
    \/ \E stage \in {FULL_STAGES[i] : i \in 1..Len(FULL_STAGES)}, result \in StageResults :
         CmdStage(stage, result)
    \/ \E resume \in Bool, dry_run \in Bool, latest \in RemoteAnswers :
         StartFull(resume, dry_run, latest)
    \/ FullCrash
    \/ FullSkip
    \/ \E result \in StageResults : FullStage(result)
    \/ FinishFull

SpecRun == InitRun /\ [][NextRun]_vars

\* ---------------------------------------------------------------------------
\* C1

\* what the claim says should_skip returns, from the stored stage and status alone
ClaimedSkip(d, s) ==
    /\ Index(order, d.stage) # 0
    /\ \/ Index(order, d.stage) > Index(order, s)
       \/ Index(order, d.stage) = Index(order, s) /\ d.status = "completed"

Range(seq) == {seq[i] : i \in 1..Len(seq)}

\* an invocation of the whole pipeline that was asked to resume
Resuming ==
    /\ inv.entry \in {"pipeline", "full"}
    /\ inv.resume
    /\ ~inv.force

\* C2 as stated: a stage is skipped on resume only if it was recorded completed
\* and no stage the orchestrator runs before it was recorded pending, running or
\* failed when the resume began
C2_Original ==
    Resuming =>
      \A S \in skipped :
        /\ statuses.m[S] = "completed"
        /\ \A j \in 1..Len(PIPELINE_MAP) :
             j < Index(PIPELINE_MAP, S) =>
               statuses.m[PIPELINE_MAP[j]] \notin {"pending", "running", "failed"}

\* ---------------------------------------------------------------------------
\* C3

\* C3 as stated, for run_pipeline: once check_updates has set a release different
\* from the stored one, every stage reads as pending, so no stage is skipped in
\* that invocation
C3_Original ==
    (inv.entry = "pipeline" /\ inv.last_processed # None /\ inv.date # None)
      => skipped = {}

\* ---------------------------------------------------------------------------
\* C4

\* the run key the invocation records its stages under
RunKey == IF inv.entry = "full" THEN inv.current ELSE SessionKey

\* C4: in an invocation with resume and without force, a stage recorded completed
\* for the run when the invocation began is never called and stays completed
C4_ResumeSkipsCompleted ==
    (Resuming /\ statuses.found) =>
      \A S \in PipelineStages :
        statuses.m[S] = "completed" =>
          /\ S \notin Range(calls)
          /\ RunKey # None => runs[RunKey][S] = "completed"

\* a resumed invocation that ran download again and skipped the completed load
C4_Witness ==
    /\ Resuming
    /\ pc = "done"
    /\ statuses.m["load"] = "completed"
    /\ "load" \in skipped
    /\ "download" \in Range(calls)

\* ---------------------------------------------------------------------------
\* C24

\* C24 as stated: under every entry point a stage's recorded status becomes
\* completed or failed only from running
C24_Original ==
    [][\A k \in RunKeys, s \in PipelineStep :
          (runs'[k][s] # runs[k][s] /\ runs'[k][s] \in {"completed", "failed"})
             => runs[k][s] = "running"]_vars

\* ---------------------------------------------------------------------------
\* C25

\* python -m src --force
Forced == inv.entry = "pipeline" /\ inv.force

NULL == "NULL"

\* an empty Python dict
EmptyDict == [c \in {} |-> 0]

\* the codes that occur in the reference columns of the source files
Codes == {"1", "2"}

\* cnpj_basico as the source file holds it: eight digits, or too short
CnpjRaw == {"12345678", "123"}

\* the columns of empresas the loader's decisions read
ColumnSet == {"cnpj_basico", "natureza_juridica_codigo", "qualificacao_responsavel"}

\* the rows of empresas.csv: a natureza_juridica_codigo that is always given,
\* a qualificacao_responsavel that is missing or given
Rows ==
    [cnpj_basico : CnpjRaw,
     natureza_juridica_codigo : Codes,
     qualificacao_responsavel : {"2", NULL}]

\* rows in the source file, at most
MaxFileRows == 3

\* settings.chunk_size: rows per chunk handed out by the reader
chunk_size == 2

\* the chunks pandas.read_csv(chunksize=chunk_size) can hand out
Chunks == UNION {[1..n -> Rows] : n \in 1..chunk_size}

\* Series.astype(str): a missing value becomes the text "nan"
astype_str(v) == IF v = NULL THEN "nan" ELSE v

\* _ensure_len on values made of digits: keep the value of that length
ensure_len(v, length) == IF v # NULL /\ Len(v) = length THEN v ELSE NULL

EmpresasSchema_clean(row) == [row EXCEPT !.cnpj_basico = ensure_len(@, 8)]

\* DIFF_COLUMNS_MAP["empresas"], among the columns modelled
DIFF_COLUMNS == {"cnpj_basico"}

isna_sum(rows, c) == Cardinality({k \in 1..Len(rows) : rows[k][c] = NULL})

\* validation.validate: the chunk after repair and its telemetry; with level
\* none the chunk comes back as it is and the telemetry has no changed_counts
validate(level, rows) ==
    IF level = "none"
    THEN [df |-> rows,
          telemetry |-> [level |-> level, null_deltas |-> EmptyDict,
                         changed_counts |-> EmptyDict]]
    ELSE LET after == [k \in 1..Len(rows) |-> EmpresasSchema_clean(rows[k])]
             deltas == [c \in ColumnSet |-> isna_sum(after, c) - isna_sum(rows, c)]
             cnt(c) == Cardinality({k \in 1..Len(rows) :
                            astype_str(rows[k][c]) # astype_str(after[k][c])})
             changed_counts ==
                 IF level = "aggressive"
                 THEN [c \in {d \in DIFF_COLUMNS : cnt(d) # 0} |-> cnt(c)]
                 ELSE EmptyDict
         IN [df |-> after,
             telemetry |-> [level |-> level, null_deltas |-> deltas,
                            changed_counts |-> changed_counts]]

\* settings.gate_min_rows, configured to the size of a full chunk
gate_min_rows == 2

\* settings.gate_max_changed_ratio (0.3), as numerator and denominator
gate_max_changed_ratio == <<3, 10>>

\* settings.gate_max_null_delta_ratio, configured to 0.5, as numerator and
\* denominator
gate_max_null_delta_ratio == <<1, 2>>

Abs(x) == IF x < 0 THEN 0 - x ELSE x

\* a comparison that flags the ratios under the threshold
RatioUnder(n, rows_count, t) == n * t[2] < t[1] * rows_count

\* the comparison made non-strict
RatioAtLeast(n, rows_count, t) == n * t[2] >= t[1] * rows_count

\* n / rows_count > t, for a threshold t given as a fraction
RatioAbove(n, rows_count, t) == n * t[2] > t[1] * rows_count

\* the quality gate applies to a chunk of that many rows
gate_applies(cfg, rows_count) ==
    cfg.enable_quality_gates /\ rows_count >= gate_min_rows

\* the triggers dict built by the gate under the two thresholds given: column
\* -> why it exceeds a threshold, a ratio being the pair of its numerator and
\* denominator
gate_triggers_with(telemetry, rows_count, max_changed, max_null_delta) ==
    LET changed == telemetry.changed_counts
        deltas == telemetry.null_deltas
        byChanged == {c \in DOMAIN changed :
                        RatioAbove(changed[c], rows_count, max_changed)}
        byDelta == {c \in DOMAIN deltas :
                        RatioAbove(Abs(deltas[c]), rows_count, max_null_delta)}
    IN [c \in byChanged \cup byDelta |->
            IF c \in byChanged /\ c \in byDelta
            THEN [type |-> "changed", ratio |-> <<changed[c], rows_count>>,
                  count |-> changed[c],
                  null_delta_ratio |-> <<Abs(deltas[c]), rows_count>>,
                  null_delta |-> deltas[c]]
            ELSE IF c \in byChanged
            THEN [type |-> "changed", ratio |-> <<changed[c], rows_count>>,
                  count |-> changed[c]]
            ELSE [type |-> "null_delta", ratio |-> <<Abs(deltas[c]), rows_count>>,
                  delta |-> deltas[c]]]

\* the triggers dict under the thresholds of the settings
gate_triggers(telemetry, rows_count) ==
    gate_triggers_with(telemetry, rows_count,
                       gate_max_changed_ratio, gate_max_null_delta_ratio)

\* no exception
NoError == [type |-> "none"]

\* cursor.copy_expert: the rows enter the open transaction; when the
\* statement fails the server had received the first n of them
copy_expert(c, entries, outcome, n) ==
    [c EXCEPT !.pending = @ \o (IF outcome = "ok" THEN entries ELSE SubSeq(entries, 1, n))]

\* conn.commit returning normally: the open transaction becomes durable;
\* commits counts the commits that took effect
commit(c, d) ==
    [conn |-> [c EXCEPT !.pending = <<>>, !.commits = @ + 1],
     db |-> [d EXCEPT !.empresas = @ \o c.pending]]

\* conn.rollback: the open transaction is discarded
rollback(c) == [c EXCEPT !.pending = <<>>, !.rollbacks = @ + 1]

\* the same without the rollback in the except branch
fast_load_chunk_keep(c, d, entries, copy_outcome, n, commit_outcome) ==
    LET c1 == copy_expert(c, entries, copy_outcome, n)
    IN IF copy_outcome # "ok" \/ commit_outcome # "ok"
       THEN [conn |-> c1, db |-> d, raised |-> TRUE]
       ELSE [conn |-> commit(c1, d).conn, db |-> commit(c1, d).db, raised |-> FALSE]

\* fast_load_chunk: COPY then commit; on any exception rollback and re-raise
fast_load_chunk(c, d, entries, copy_outcome, n, commit_outcome) ==
    LET c1 == copy_expert(c, entries, copy_outcome, n)
    IN IF copy_outcome # "ok" \/ commit_outcome # "ok"
       THEN [conn |-> rollback(c1), db |-> d, raised |-> TRUE]
       ELSE [conn |-> commit(c1, d).conn, db |-> commit(c1, d).db, raised |-> FALSE]

\* the reference tables validate_chunk requires for empresas, in its order
EmpresasDomains == <<"naturezas_juridicas", "qualificacoes_socios">>

\* the same, counting the rows of the first table only
ensure_domains_loaded_first(d, domains, strict) ==
    IF strict /\ d[domains[1]] = {} THEN domains[1] ELSE NULL

\* _ensure_domains_loaded: the first empty table when strict (RuntimeError),
\* NULL when it returns
ensure_domains_loaded(d, domains, strict) ==
    LET empty == {k \in 1..Len(domains) : d[domains[k]] = {}}
    IN IF strict /\ empty # {}
       THEN domains[CHOOSE k \in empty : \A j \in empty : k <= j]
       ELSE NULL

\* _get_domain_set: the cached set, or SELECT DISTINCT codigo and cache it
get_domain_set(cache, d, table) ==
    IF table \in DOMAIN cache
    THEN [cache |-> cache, s |-> cache[table]]
    ELSE [cache |-> [k \in DOMAIN cache \cup {table} |->
                        IF k = table THEN d[table] ELSE cache[k]],
          s |-> d[table]]

\* the length of the sample of offending values in the error message
SampleMax == 10

\* list(set(values))[:SampleMax]
sample_of(values) ==
    IF Cardinality(values) <= SampleMax THEN values
    ELSE CHOOSE S \in SUBSET values : Cardinality(S) = SampleMax

\* the same, nulling the offending values when strict as well
validate_fk_set_nulling(rows, column, valid_set, strict) ==
    LET mask_invalid == {k \in 1..Len(rows) :
                            rows[k][column] \notin valid_set /\ rows[k][column] # NULL}
        nulled == [k \in 1..Len(rows) |->
                      IF k \in mask_invalid THEN [rows[k] EXCEPT ![column] = NULL]
                      ELSE rows[k]]
    IN IF mask_invalid # {} /\ strict
       THEN [rows |-> nulled, mask |-> mask_invalid,
             error |-> [type |-> "ValueError", label |-> column,
                        sample |-> sample_of({rows[k][column] : k \in mask_invalid}),
                        total |-> Cardinality(mask_invalid)]]
       ELSE [rows |-> nulled, mask |-> mask_invalid, error |-> NoError]

\* the same, raising whether strict or not
validate_fk_set_raising(rows, column, valid_set, strict) ==
    LET mask_invalid == {k \in 1..Len(rows) :
                            rows[k][column] \notin valid_set /\ rows[k][column] # NULL}
    IN IF mask_invalid # {}
       THEN [rows |-> rows, mask |-> mask_invalid,
             error |-> [type |-> "ValueError", label |-> column,
                        sample |-> sample_of({rows[k][column] : k \in mask_invalid}),
                        total |-> Cardinality(mask_invalid)]]
       ELSE [rows |-> rows, mask |-> mask_invalid, error |-> NoError]

\* _validate_fk_set: the non-null values outside valid_set raise when strict,
\* else are set to NA; the mask of the affected rows is returned
validate_fk_set(rows, column, valid_set, strict) ==
    LET mask_invalid == {k \in 1..Len(rows) :
                            rows[k][column] \notin valid_set /\ rows[k][column] # NULL}
        nulled == [k \in 1..Len(rows) |->
                      IF k \in mask_invalid THEN [rows[k] EXCEPT ![column] = NULL]
                      ELSE rows[k]]
    IN IF mask_invalid # {} /\ strict
       THEN [rows |-> rows, mask |-> mask_invalid,
             error |-> [type |-> "ValueError", label |-> column,
                        sample |-> sample_of({rows[k][column] : k \in mask_invalid}),
                        total |-> Cardinality(mask_invalid)]]
       ELSE [rows |-> nulled, mask |-> mask_invalid, error |-> NoError]

\* validate_chunk for empresas: the chunk after validation, the masks of the
\* violations by label, the cache, and the exception if one is raised
validate_chunk(cfg, cache, d, rows) ==
    LET strict == cfg.strict_fk_validation
        missing == ensure_domains_loaded(d, EmpresasDomains, strict)
        nat == get_domain_set(cache, d, "naturezas_juridicas")
        qual == get_domain_set(nat.cache, d, "qualificacoes_socios")
        v1 == validate_fk_set(rows, "natureza_juridica_codigo", nat.s, strict)
        v2 == validate_fk_set(v1.rows, "qualificacao_responsavel", qual.s, strict)
        labels == {l \in {"natureza_juridica_codigo", "qualificacao_responsavel"} :
                    IF l = "natureza_juridica_codigo" THEN v1.mask # {} ELSE v2.mask # {}}
    IN IF missing # NULL
       THEN [rows |-> rows, fk_violations |-> EmptyDict, cache |-> cache,
             error |-> [type |-> "RuntimeError", table |-> missing]]
       ELSE IF v1.error.type # "none"
       THEN [rows |-> v1.rows, fk_violations |-> EmptyDict, cache |-> qual.cache,
             error |-> v1.error]
       ELSE IF v2.error.type # "none"
       THEN [rows |-> v2.rows, fk_violations |-> EmptyDict, cache |-> qual.cache,
             error |-> v2.error]
       ELSE [rows |-> v2.rows,
             fk_violations |-> [l \in labels |->
                 IF l = "natureza_juridica_codigo" THEN v1.mask ELSE v2.mask],
             cache |-> qual.cache, error |-> NoError]

\* the row numbers of a mask, in row order
MaskSeq(n, mask) == SelectSeq([k \in 1..n |-> k], LAMBDA k : k \in mask)

\* _critical_fields("empresas")
critical_fields == {"cnpj_basico"}

\* the same for the first such row only
critical_records_first(i, rows) ==
    LET mask == {k \in 1..Len(rows) : \E c \in critical_fields : rows[k][c] = NULL}
        idx == MaskSeq(Len(rows), mask)
    IN [j \in 1..(IF Len(idx) > 0 THEN 1 ELSE 0) |->
            [chunk |-> i, reason |-> "critical_fields_null", fields |-> critical_fields,
             pos |-> idx[j], row |-> rows[idx[j]]]]

\* the quarantine lines for the rows of a chunk with a null critical field
critical_records(i, rows) ==
    LET mask == {k \in 1..Len(rows) : \E c \in critical_fields : rows[k][c] = NULL}
        idx == MaskSeq(Len(rows), mask)
    IN [j \in 1..Len(idx) |->
            [chunk |-> i, reason |-> "critical_fields_null", fields |-> critical_fields,
             pos |-> idx[j], row |-> rows[idx[j]]]]

\* the quarantine lines for one label of fk_info
fk_records(i, rows, label, mask) ==
    LET idx == MaskSeq(Len(rows), mask)
    IN [j \in 1..Len(idx) |->
            [chunk |-> i, reason |-> "fk_violation", fields |-> {label},
             pos |-> idx[j], row |-> rows[idx[j]]]]

\* the same for the first label only
fk_quarantine_first(i, rows, fk_info) ==
    IF "natureza_juridica_codigo" \in DOMAIN fk_info
    THEN fk_records(i, rows, "natureza_juridica_codigo", fk_info["natureza_juridica_codigo"])
    ELSE <<>>

\* the quarantine lines for fk_info, label by label in insertion order
fk_quarantine(i, rows, fk_info) ==
    (IF "natureza_juridica_codigo" \in DOMAIN fk_info
     THEN fk_records(i, rows, "natureza_juridica_codigo", fk_info["natureza_juridica_codigo"])
     ELSE <<>>)
    \o
    (IF "qualificacao_responsavel" \in DOMAIN fk_info
     THEN fk_records(i, rows, "qualificacao_responsavel", fk_info["qualificacao_responsavel"])
     ELSE <<>>)

\* the rows of a chunk as they reach the table
Entries(i, rows) == [k \in 1..Len(rows) |-> [chunk |-> i, pos |-> k, row |-> rows[k]]]

Levels == {"none", "basic", "aggressive"}

\* before run_loader: the settings in force, the reference tables as earlier
\* loads left them, and a cache a previous run of the same process may have filled
InitLoad ==
    /\ data = EmptyData
    /\ ret = [op |-> "init", arg |-> None, val |-> FALSE]
    /\ RunIdle
    /\ settings \in [strict_fk_validation : Bool, enable_quality_gates : Bool,
                     auto_repair_level : Levels]
    /\ db \in [naturezas_juridicas : {{}, {"1"}}, qualificacoes_socios : {{"1"}},
               empresas : {<<>>}]
    /\ conn = [open |-> FALSE, pending |-> <<>>, commits |-> 0, rollbacks |-> 0]
    /\ DOMAIN_CACHE \in {EmptyDict, [k \in {"naturezas_juridicas"} |-> {"2"}]}
    /\ lpc = "idle"
    /\ chunk = [i |-> 0, rows |-> <<>>]
    /\ totals = [total_rows |-> 0, chunks_processed |-> 0, quality_gate_chunks |-> 0,
                 read |-> 0, short |-> FALSE]
    /\ files = [telemetry |-> <<>>, quarantine |-> <<>>, summary |-> <<>>]
    /\ error = NoError
    /\ hist = <<>>
    /\ processing = [order |-> <<>>, loaded |-> {}]
    /\ call = [fn |-> "none", arg |-> <<>>, out |-> <<>>, done |-> FALSE]
    /\ DownloadIdle

\* run_loader up to the first read of empresas.csv: connect (return when it
\* fails), clear_domain_cache, then process_and_load_file opens the file
RunLoader(connected) ==
    /\ lpc = "idle"
    /\ IF connected
       THEN /\ conn' = [conn EXCEPT !.open = TRUE]
            /\ DOMAIN_CACHE' = EmptyDict
            /\ lpc' = "read"
       ELSE /\ lpc' = "returned"
            /\ UNCHANGED <<conn, DOMAIN_CACHE>>
    /\ UNCHANGED <<settings, db, chunk, totals, files, error, hist>>
    /\ UNCHANGED <<psVars, runVars, fnVars, processing>>

\* a flagged chunk that goes on to the later steps all the same
quality_gate_continue_never(flagged) == FALSE

\* the continue that ends the pass of a flagged chunk
quality_gate_continue(flagged) == flagged

\* one pass of the loop of process_and_load_file up to the bulk load: read a
\* chunk, repair it, apply the quality gate, quarantine the rows with null
\* critical fields, validate the references and quarantine the violations
ProcessChunk(rows) ==
    /\ lpc = "read"
    /\ ~totals.short
    /\ totals.read + Len(rows) <= MaxFileRows
    /\ LET i == Len(hist) + 1
           v == validate(settings.auto_repair_level, rows)
           rows_count == Len(v.df)
           gated == gate_applies(settings, rows_count)
           triggers == IF gated THEN gate_triggers(v.telemetry, rows_count) ELSE EmptyDict
           flagged == gated /\ DOMAIN triggers # {}
           \* quality_gate is empty where the record has no such key
           telemetry_record == [chunk |-> i, rows |-> rows_count,
                                telemetry |-> v.telemetry, quality_gate |-> triggers]
           \* the files and counters after the gate
           files1 == IF flagged
                     THEN [files EXCEPT
                              !.telemetry = Append(@, telemetry_record),
                              !.quarantine = Append(@,
                                  [chunk |-> i, reason |-> "quality_gate",
                                   trigger_columns |-> triggers, rows |-> rows_count])]
                     ELSE IF gated THEN files
                     ELSE [files EXCEPT !.telemetry = Append(@, telemetry_record)]
           totals1 == [totals EXCEPT
                          !.read = @ + Len(rows),
                          !.short = Len(rows) < chunk_size,
                          !.quality_gate_chunks = IF flagged THEN @ + 1 ELSE @]
           vc == validate_chunk(settings, DOMAIN_CACHE, db, v.df)
           raised == vc.error.type # "none"
           h == [df |-> v.df, telemetry |-> v.telemetry, outcome |-> "flagged",
                 before |-> [commits |-> conn.commits, rollbacks |-> conn.rollbacks]]
       IN /\ totals' = totals1
          /\ IF quality_gate_continue(flagged)
             THEN /\ files' = files1
                  /\ hist' = Append(hist, h)
                  /\ UNCHANGED <<lpc, chunk, DOMAIN_CACHE, error>>
             ELSE /\ DOMAIN_CACHE' = vc.cache
                  /\ chunk' = [i |-> i, rows |-> vc.rows]
                  /\ files' = [files1 EXCEPT
                                 !.quarantine = @ \o critical_records(i, v.df) \o
                                     (IF raised THEN <<>>
                                      ELSE fk_quarantine(i, vc.rows, vc.fk_violations))]
                  /\ lpc' = IF raised THEN "raised" ELSE "load"
                  /\ error' = IF vc.error.type = "ValueError"
                              THEN [type |-> "ValueError", label |-> vc.error.label,
                                    sample |-> vc.error.sample, total |-> vc.error.total,
                                    telemetry_after |-> v.telemetry]
                              ELSE IF raised THEN vc.error ELSE error
                  /\ hist' = Append(hist,
                                 [h EXCEPT !.outcome = IF raised THEN "raised"
                                                       ELSE "validated"])
    /\ UNCHANGED <<settings, db, conn>>
    /\ UNCHANGED <<psVars, runVars, fnVars, processing>>

Outcomes == {"ok", "error"}

\* the rest of the pass: fast_load_chunk, then the totals
LoadChunk(copy_outcome, n, commit_outcome) ==
    /\ lpc = "load"
    /\ n < Len(chunk.rows)
    /\ LET r == fast_load_chunk(conn, db, Entries(chunk.i, chunk.rows),
                                copy_outcome, n, commit_outcome)
       IN /\ conn' = r.conn
          /\ db' = r.db
          /\ IF r.raised
             THEN /\ lpc' = "raised"
                  /\ error' = [type |-> "DatabaseError"]
                  /\ hist' = [hist EXCEPT ![Len(hist)].outcome = "load_failed"]
                  /\ UNCHANGED totals
             ELSE /\ lpc' = "read"
                  /\ totals' = [totals EXCEPT !.total_rows = @ + Len(chunk.rows),
                                              !.chunks_processed = @ + 1]
                  /\ hist' = [hist EXCEPT ![Len(hist)].outcome = "loaded"]
                  /\ UNCHANGED error
    /\ UNCHANGED <<settings, DOMAIN_CACHE, chunk, files>>
    /\ UNCHANGED <<psVars, runVars, fnVars, processing>>

\* the reader is exhausted: the summary is written and the table is done
FinishTable ==
    /\ lpc = "read"
    /\ files' = [files EXCEPT !.summary = Append(@,
                    [rows_total |-> totals.total_rows,
                     chunks_processed |-> totals.chunks_processed,
                     quality_gate_chunks |-> totals.quality_gate_chunks])]
    /\ lpc' = "done"
    /\ UNCHANGED <<settings, db, conn, DOMAIN_CACHE, chunk, totals, error, hist>>
    /\ UNCHANGED <<psVars, runVars, fnVars, processing>>

\* run_loader after the tables: ANALYZE, commit, close
RunLoaderFinish ==
    /\ lpc = "done"
    /\ conn' = [commit(conn, db).conn EXCEPT !.open = FALSE]
    /\ db' = commit(conn, db).db
    /\ lpc' = "closed"
    /\ UNCHANGED <<settings, DOMAIN_CACHE, chunk, totals, files, error, hist>>
    /\ UNCHANGED <<psVars, runVars, fnVars, processing>>

\* an except branch that rolls back and goes on with the next chunk
RunLoaderExcept_resume ==
    /\ lpc = "raised"
    /\ conn' = rollback(conn)
    /\ lpc' = "read"
    /\ UNCHANGED <<settings, db, DOMAIN_CACHE, chunk, totals, files, error, hist>>
    /\ UNCHANGED <<psVars, runVars, fnVars, processing>>

\* run_loader's except and finally: log, rollback, close
RunLoaderExcept ==
    /\ lpc = "raised"
    /\ conn' = [rollback(conn) EXCEPT !.open = FALSE]
    /\ lpc' = "aborted"
    /\ UNCHANGED <<settings, db, DOMAIN_CACHE, chunk, totals, files, error, hist>>
    /\ UNCHANGED <<psVars, runVars, fnVars, processing>>

NextLoad ==
    \/ \E connected \in Bool : RunLoader(connected)
    \/ \E rows \in Chunks : ProcessChunk(rows)
    \/ \E copy_outcome \in Outcomes, commit_outcome \in Outcomes, n \in 0..(chunk_size - 1) :
          LoadChunk(copy_outcome, n, commit_outcome)
    \/ FinishTable
    \/ RunLoaderFinish
    \/ RunLoaderExcept

SpecLoad == InitLoad /\ [][NextLoad]_vars

(***************************************************************************)
(* Claims about the chunk loader                                           *)
(***************************************************************************)

\* the rows of chunk i the table holds
InTable(i) == SelectSeq(db.empresas, LAMBDA e : e.chunk = i)

\* the last chunk read
LastChunk == hist[Len(hist)]

\* fast_load_chunk has just returned or raised
JustLoaded ==
    /\ hist # <<>>
    /\ lpc \in {"read", "raised"}
    /\ LastChunk.outcome \in {"loaded", "load_failed"}

\* C5: every fast_load_chunk call ends either with the rows in the table, one
\* more commit and no rollback, or with a rollback, no commit, no row of the
\* chunk in the table and the error raised to the caller; in both cases no
\* transaction stays open, and at no time does the table hold a part of a chunk
C5_OneChunkOneTransaction ==
    /\ JustLoaded =>
        /\ conn.pending = <<>>
        /\ \/ /\ LastChunk.outcome = "loaded"
              /\ lpc = "read"
              /\ conn.commits = LastChunk.before.commits + 1
              /\ conn.rollbacks = LastChunk.before.rollbacks
              /\ InTable(Len(hist)) = Entries(Len(hist), chunk.rows)
           \/ /\ LastChunk.outcome = "load_failed"
              /\ lpc = "raised"
              /\ error.type = "DatabaseError"
              /\ conn.commits = LastChunk.before.commits
              /\ conn.rollbacks = LastChunk.before.rollbacks + 1
              /\ InTable(Len(hist)) = <<>>
    /\ \A i \in 1..Len(hist) : Len(InTable(i)) \in {0, Len(hist[i].df)}

\* a second chunk fails to load after the first was committed
C5_Witness ==
    /\ JustLoaded
    /\ Len(hist) = 2
    /\ LastChunk.outcome = "load_failed"
    /\ conn.rollbacks = 1
    /\ conn.commits = 1
    /\ Len(db.empresas) = 2

\* the reference columns of empresas and the table each one refers to
FKColumns == {"natureza_juridica_codigo", "qualificacao_responsavel"}

DomainTable(column) ==
    IF column = "natureza_juridica_codigo" THEN "naturezas_juridicas"
    ELSE "qualificacoes_socios"

\* the rows whose value in the column is non-null and not in the cached domain set
Unmatched(rows, column) ==
    {k \in 1..Len(rows) :
        /\ rows[k][column] # NULL
        /\ DomainTable(column) \in DOMAIN DOMAIN_CACHE
        /\ rows[k][column] \notin DOMAIN_CACHE[DomainTable(column)]}

\* chunk i was handed to referential validation
Validated(i) == hist[i].outcome # "flagged"

\* C6: in strict mode a chunk handed to referential validation with a non-null
\* reference value outside the cached domain set raises a ValueError and ends
\* the table: no row of it is in the table and no load was attempted, the chunk
\* is as repair left it (nothing nulled), and the error names a violating
\* column with its count of violations, a non-empty sample of at most SampleMax
\* of its offending values, and the chunk's repair telemetry
C6_StrictRaises ==
    settings.strict_fk_validation =>
        \A i \in 1..Len(hist) :
            (Validated(i) /\ \E c \in FKColumns : Unmatched(hist[i].df, c) # {}) =>
                /\ i = Len(hist)
                /\ hist[i].outcome = "raised"
                /\ lpc \in {"raised", "aborted"}
                /\ error.type = "ValueError"
                /\ InTable(i) = <<>>
                /\ conn.pending = <<>>
                /\ conn.commits = hist[i].before.commits
                /\ chunk.rows = hist[i].df
                /\ error.label \in FKColumns
                /\ Unmatched(hist[i].df, error.label) # {}
                /\ error.total = Cardinality(Unmatched(hist[i].df, error.label))
                /\ error.sample # {}
                /\ error.sample \subseteq
                       {hist[i].df[k][error.label] : k \in Unmatched(hist[i].df, error.label)}
                /\ Cardinality(error.sample) <= SampleMax
                /\ error.telemetry_after = hist[i].telemetry

\* the second chunk raises on its second reference column after the first
\* chunk was committed
C6_Witness ==
    /\ settings.strict_fk_validation
    /\ lpc = "raised"
    /\ Len(hist) = 2
    /\ Len(db.empresas) = 2
    /\ error.type = "ValueError"
    /\ error.label = "qualificacao_responsavel"
    /\ error.total = 1
    /\ error.sample = {"2"}

\* chunk i as relaxed validation must leave it: the unmatched values null,
\* every other cell as repair left it
Relaxed(i) ==
    [k \in 1..Len(hist[i].df) |->
        [c \in ColumnSet |->
            IF c \in FKColumns /\ k \in Unmatched(hist[i].df, c) THEN NULL
            ELSE hist[i].df[k][c]]]

\* the quarantine lines with reason fk_violation for row k, column c of chunk i
FkLines(i, k, c) ==
    {j \in 1..Len(files.quarantine) :
        /\ files.quarantine[j].reason = "fk_violation"
        /\ files.quarantine[j].chunk = i
        /\ files.quarantine[j].pos = k
        /\ files.quarantine[j].fields = {c}}

TableFailed == lpc \in {"raised", "aborted"}

\* what holds once the table has failed on its chunk k
C8_Failed ==
    TableFailed =>
        /\ hist # <<>>
        /\ LastChunk.outcome \in {"raised", "load_failed"}
        /\ InTable(Len(hist)) = <<>>
        /\ \A j \in 1..(Len(hist) - 1) :
              /\ hist[j].outcome \in {"loaded", "flagged"}
              /\ hist[j].outcome = "loaded" => Len(InTable(j)) = Len(hist[j].df)
        /\ \A e \in 1..Len(db.empresas) : db.empresas[e].chunk < Len(hist)
        /\ Len(db.empresas) = totals.total_rows

\* what a step may do once the table has failed
C8_Stays ==
    TableFailed => (TableFailed' /\ db' = db /\ hist' = hist)

\* C8: when chunk k of the table fails, by a strict referential error or a
\* load failure, every chunk loaded before k is and stays in the table, no row
\* of chunk k is in it, no later chunk is read or loaded, and the rollback of
\* the abort leaves the table as the earlier commits made it
C8_AtomicPerChunk == [](C8_Failed) /\ [][C8_Stays]_vars

\* the loader has aborted on the referential error of the second chunk and
\* the two rows of the first chunk are in the table
C8_Witness ==
    /\ lpc = "aborted"
    /\ Len(hist) = 2
    /\ hist[1].outcome = "loaded"
    /\ hist[2].outcome = "raised"
    /\ conn.rollbacks = 1
    /\ Len(db.empresas) = 2

\* the quarantine lines with reason quality_gate for chunk i
QualityGateLines(i) ==
    {j \in 1..Len(files.quarantine) :
        /\ files.quarantine[j].reason = "quality_gate"
        /\ files.quarantine[j].chunk = i}

\* some column of chunk i has changed_count / rows above the changed-ratio
\* threshold or |null_delta| / rows above the null-delta threshold
OverThreshold(i) ==
    LET rows_count == Len(hist[i].df)
        changed == hist[i].telemetry.changed_counts
        deltas == hist[i].telemetry.null_deltas
    IN \E c \in ColumnSet :
          \/ /\ c \in DOMAIN changed
             /\ changed[c] * gate_max_changed_ratio[2] > gate_max_changed_ratio[1] * rows_count
          \/ /\ c \in DOMAIN deltas
             /\ Abs(deltas[c]) * gate_max_null_delta_ratio[2]
                    > gate_max_null_delta_ratio[1] * rows_count

\* C9: a chunk is flagged by the quality gate (a quality_gate line is
\* quarantined for it) iff gates are enabled, it has at least gate_min_rows
\* rows and some column is strictly over one of the two thresholds; a chunk
\* with fewer rows is never flagged
C9_GateDecision ==
    \A i \in 1..Len(hist) :
        /\ QualityGateLines(i) # {} <=>
              /\ settings.enable_quality_gates
              /\ Len(hist[i].df) >= gate_min_rows
              /\ OverThreshold(i)
        /\ Len(hist[i].df) < gate_min_rows => QualityGateLines(i) = {}

\* gates on: a first chunk with every cnpj_basico nulled is flagged, a second
\* one with its only cnpj_basico nulled is too small to be flagged
C9_Witness ==
    /\ settings.enable_quality_gates
    /\ settings.auto_repair_level = "basic"
    /\ Len(hist) = 2
    /\ QualityGateLines(1) # {}
    /\ hist[1].telemetry.null_deltas["cnpj_basico"] = 2
    /\ Len(hist[2].df) = 1
    /\ hist[2].telemetry.null_deltas["cnpj_basico"] = 1
    /\ QualityGateLines(2) = {}

\* the columns of chunk i over the changed-ratio threshold
OverChanged(i) ==
    {c \in DOMAIN hist[i].telemetry.changed_counts :
        hist[i].telemetry.changed_counts[c] * gate_max_changed_ratio[2]
            > gate_max_changed_ratio[1] * Len(hist[i].df)}

\* the columns of chunk i over the null-delta threshold
OverNullDelta(i) ==
    {c \in DOMAIN hist[i].telemetry.null_deltas :
        Abs(hist[i].telemetry.null_deltas[c]) * gate_max_null_delta_ratio[2]
            > gate_max_null_delta_ratio[1] * Len(hist[i].df)}

\* the quarantine line j lists the triggering columns of chunk i, each with
\* its ratio
ListsTriggers(j, i) ==
    LET t == files.quarantine[j].trigger_columns
    IN /\ DOMAIN t = OverChanged(i) \cup OverNullDelta(i)
       /\ files.quarantine[j].rows = Len(hist[i].df)
       /\ \A c \in DOMAIN t :
             IF c \in OverChanged(i)
             THEN /\ t[c].type = "changed"
                  /\ t[c].ratio = <<hist[i].telemetry.changed_counts[c], Len(hist[i].df)>>
                  /\ c \in OverNullDelta(i) =>
                        t[c].null_delta_ratio =
                            <<Abs(hist[i].telemetry.null_deltas[c]), Len(hist[i].df)>>
             ELSE /\ t[c].type = "null_delta"
                  /\ t[c].ratio = <<Abs(hist[i].telemetry.null_deltas[c]), Len(hist[i].df)>>

\* C10: for every chunk flagged by the quality gate no row is in the table,
\* the quarantine holds exactly one quality_gate line for it, listing the
\* triggering columns with their ratios, and no critical_fields_null or
\* fk_violation line; while only flagged chunks were read no domain set was
\* fetched; after a flagged chunk no error is raised and the loop is back at
\* the reader (or the table is done)
C10_FlaggedChunkSkipped ==
    /\ \A i \in 1..Len(hist) :
          QualityGateLines(i) # {} =>
              /\ InTable(i) = <<>>
              /\ Cardinality(QualityGateLines(i)) = 1
              /\ \A j \in QualityGateLines(i) : ListsTriggers(j, i)
              /\ \A j \in 1..Len(files.quarantine) :
                    files.quarantine[j].chunk = i => files.quarantine[j].reason = "quality_gate"
              /\ i = Len(hist) =>
                    /\ lpc \in {"read", "done", "closed"}
                    /\ error.type = "none"
                    /\ conn.pending = <<>>
    /\ (hist # <<>> /\ \A i \in 1..Len(hist) : QualityGateLines(i) # {})
          => DOMAIN_CACHE = EmptyDict

\* a flagged first chunk holding a null critical field and an unmatched
\* reference left one quarantine line and no row; the next chunk was loaded
C10_Witness ==
    /\ Len(hist) = 2
    /\ QualityGateLines(1) # {}
    /\ \E k \in 1..Len(hist[1].df) :
          /\ hist[1].df[k].cnpj_basico = NULL
          /\ hist[1].df[k].natureza_juridica_codigo = "2"
    /\ hist[2].outcome = "loaded"
    /\ Len(files.quarantine) = 1
    /\ Len(db.empresas) = 1

\* the telemetry lines written for chunk i
TelemetryLines(i) ==
    {j \in 1..Len(files.telemetry) : files.telemetry[j].chunk = i}

\* C11: for every chunk read exactly one telemetry line is written, whether
\* the chunk passes the quality gate, is flagged by it or is too small for it,
\* and the line of a flagged chunk carries the gate decision
C11_Original ==
    \A i \in 1..Len(hist) :
        /\ Cardinality(TelemetryLines(i)) = 1
        /\ QualityGateLines(i) # {} =>
              \A j \in TelemetryLines(i) : DOMAIN files.telemetry[j].quality_gate # {}

\* the quarantine lines with reason critical_fields_null for row k of chunk i
CriticalLines(i, k) ==
    {j \in 1..Len(files.quarantine) :
        /\ files.quarantine[j].reason = "critical_fields_null"
        /\ files.quarantine[j].chunk = i
        /\ files.quarantine[j].pos = k}

C20_Original ==
    (~settings.strict_fk_validation /\ db.naturezas_juridicas = {}) =>
        \A i \in 1..Len(hist) :
            Validated(i) =>
                \A k \in 1..Len(hist[i].df) :
                    /\ FkLines(i, k, "natureza_juridica_codigo") = {}
                    /\ i = chunk.i =>
                           chunk.rows[k].natureza_juridica_codigo =
                               hist[i].df[k].natureza_juridica_codigo

(***************************************************************************)
(* The quality gate as a function of the repair statistics and thresholds  *)
(***************************************************************************)

\* rows in a chunk whose statistics are drawn, at most
MaxGateRows == 3

\* the thresholds tried, as fractions: 0, 0.3, 0.5 and 1
Thresholds == {<<0, 1>>, <<3, 10>>, <<1, 2>>, <<1, 1>>}

\* t1 <= t2 for fractions
FracLeq(t1, t2) == t1[1] * t2[2] <= t2[1] * t1[2]

\* the repair statistics of one chunk: its rows, the changed count and the
\* null delta of its column cnpj_basico
ChunkStats ==
    {[rows |-> r, changed |-> c, delta |-> d] :
        r \in 1..MaxGateRows, c \in 0..MaxGateRows, d \in (0 - MaxGateRows)..MaxGateRows}

\* the telemetry validate returns for such statistics
TelemetryOf(st) ==
    [level |-> "aggressive",
     null_deltas |-> [c \in {"cnpj_basico"} |-> st.delta],
     changed_counts |-> IF st.changed = 0 THEN EmptyDict
                        ELSE [c \in {"cnpj_basico"} |-> st.changed]]

\* with gates enabled, the gate flags a chunk of these statistics under the
\* changed-ratio threshold t
flagged_under(st, t) ==
    /\ gate_applies([enable_quality_gates |-> TRUE], st.rows)
    /\ DOMAIN gate_triggers_with(TelemetryOf(st), st.rows, t,
                                 gate_max_null_delta_ratio) # {}

\* the chunks of a sequence of statistics flagged under t
flagged_set(chunks, t) == {i \in 1..Len(chunks) : flagged_under(chunks[i], t)}

\* the pipeline state and the loader at rest while a function is exercised
AtRest ==
    /\ data = EmptyData
    /\ ret = [op |-> "init", arg |-> None, val |-> FALSE]
    /\ RunIdle
    /\ settings = [strict_fk_validation |-> FALSE, enable_quality_gates |-> TRUE,
                   auto_repair_level |-> "basic"]
    /\ db = [naturezas_juridicas |-> {}, qualificacoes_socios |-> {}, empresas |-> <<>>]
    /\ conn = [open |-> FALSE, pending |-> <<>>, commits |-> 0, rollbacks |-> 0]
    /\ DOMAIN_CACHE = EmptyDict
    /\ lpc = "idle"
    /\ chunk = [i |-> 0, rows |-> <<>>]
    /\ totals = [total_rows |-> 0, chunks_processed |-> 0, quality_gate_chunks |-> 0,
                 read |-> 0, short |-> FALSE]
    /\ files = [telemetry |-> <<>>, quarantine |-> <<>>, summary |-> <<>>]
    /\ error = NoError
    /\ hist = <<>>
    /\ processing = [order |-> <<>>, loaded |-> {}]
    /\ DownloadIdle

\* a sequence of two chunks with fixed statistics and two changed-ratio
\* thresholds t1 <= t2
InitGate ==
    /\ AtRest
    /\ \E s1 \in ChunkStats, s2 \in ChunkStats, t1 \in Thresholds, t2 \in Thresholds :
          /\ s1.changed <= s1.rows /\ Abs(s1.delta) <= s1.rows
          /\ s2.changed <= s2.rows /\ Abs(s2.delta) <= s2.rows
          /\ FracLeq(t1, t2)
          /\ call = [fn |-> "gate", arg |-> [chunks |-> <<s1, s2>>, t1 |-> t1, t2 |-> t2],
                     out |-> <<>>, done |-> FALSE]

\* the gate is applied to every chunk under t1 and under t2
ApplyGate ==
    /\ call.fn = "gate"
    /\ ~call.done
    /\ call' = [call EXCEPT
                   !.out = [t1 |-> flagged_set(call.arg.chunks, call.arg.t1),
                            t2 |-> flagged_set(call.arg.chunks, call.arg.t2)],
                   !.done = TRUE]
    /\ UNCHANGED <<psVars, runVars, loadVars, dlVars>>

NextGate == ApplyGate

SpecGate == InitGate /\ [][NextGate]_vars

\* C12: for a fixed sequence of chunks with fixed repair statistics and
\* changed-ratio thresholds t1 <= t2, all other settings equal, the chunks
\* flagged under t2 are among the chunks flagged under t1
C12_ThresholdMonotone ==
    (call.fn = "gate" /\ call.done) => call.out.t2 \subseteq call.out.t1

\* one chunk flagged under 0.3 and no longer under 0.5, with the other chunk
\* flagged under both by its null delta
C12_Witness ==
    /\ call.fn = "gate"
    /\ call.done
    /\ call.arg.t1 = <<3, 10>>
    /\ call.arg.t2 = <<1, 2>>
    /\ call.out.t1 = {1, 2}
    /\ call.out.t2 = {2}
    /\ call.arg.chunks[1].delta = 0
    /\ call.arg.chunks[2].changed = 0

(***************************************************************************)
(* The checksum validators of validation.py                                *)
(***************************************************************************)

\* text is a sequence of characters, each a string of length one
Digit == {"0", "1", "2", "3", "4", "5", "6", "7", "8", "9"}

\* int(x) for a digit character
int(ch) ==
    CASE ch = "0" -> 0 [] ch = "1" -> 1 [] ch = "2" -> 2 [] ch = "3" -> 3
      [] ch = "4" -> 4 [] ch = "5" -> 5 [] ch = "6" -> 6 [] ch = "7" -> 7
      [] ch = "8" -> 8 [] ch = "9" -> 9

\* s[0] * n
Repeat(ch, n) == [k \in 1..n |-> ch]

\* sum(nums[i] * w[i] for i in range(n))
RECURSIVE weighted_sum(_, _, _)
weighted_sum(nums, w, n) ==
    IF n = 0 THEN 0 ELSE nums[n] * w[n] + weighted_sum(nums, w, n - 1)

\* the rule with the remainder 2 mapped to 0 as well
check_digit_le(sm) == IF sm % 11 <= 2 THEN 0 ELSE 11 - (sm % 11)

\* 0 if sm % 11 < 2 else 11 - (sm % 11)
check_digit(sm) == IF sm % 11 < 2 THEN 0 ELSE 11 - (sm % 11)

\* what a call of a validator gives: a value, or the ValueError of int(x)
Returns(v) == [raised |-> FALSE, val |-> v]
RaisesValueError == [raised |-> TRUE, val |-> FALSE]

\* _cpf_valid; the weights are 10 - i and 11 - i for i counted from 0
cpf_valid(s) ==
    IF Len(s) = 0 \/ Len(s) # 11 \/ s = Repeat(s[1], 11) THEN Returns(FALSE)
    ELSE IF \E k \in 1..Len(s) : s[k] \notin Digit THEN RaisesValueError
    ELSE LET nums == [k \in 1..11 |-> int(s[k])]
             d1 == check_digit(weighted_sum(nums, [k \in 1..9 |-> 11 - k], 9))
             d2 == check_digit(weighted_sum(nums, [k \in 1..10 |-> 12 - k], 10))
         IN IF nums[10] # d1 THEN Returns(FALSE) ELSE Returns(nums[11] = d2)

\* _cnpj_valid
cnpj_valid(s) ==
    IF Len(s) = 0 \/ Len(s) # 14 \/ s = Repeat(s[1], 14) THEN Returns(FALSE)
    ELSE IF \E k \in 1..Len(s) : s[k] \notin Digit THEN RaisesValueError
    ELSE LET nums == [k \in 1..14 |-> int(s[k])]
             w1 == <<5, 4, 3, 2, 9, 8, 7, 6, 5, 4, 3, 2>>
             w2 == <<6, 5, 4, 3, 2, 9, 8, 7, 6, 5, 4, 3, 2>>
             d1 == check_digit(weighted_sum(nums, w1, 12))
             d2 == check_digit(weighted_sum(nums, w2, 13))
         IN IF nums[13] # d1 THEN Returns(FALSE) ELSE Returns(nums[14] = d2)

\* the leading digits of the identifiers tried: with sums that leave the
\* remainders 0, 1, 2 and more, and with equal digits
CpfPrefixes ==
    { <<"1", "2", "3", "4", "5", "6", "7", "8", "9">>,
      <<"5", "2", "9", "9", "8", "2", "2", "4", "7">>,
      <<"1", "0", "0", "0", "0", "0", "0", "0", "0">>,
      <<"0", "0", "0", "0", "0", "0", "0", "0", "1">>,
      <<"1", "1", "1", "1", "1", "1", "1", "1", "1">>,
      <<"0", "0", "0", "0", "0", "0", "0", "0", "0">> }

CnpjPrefixes ==
    { <<"1", "2", "3", "4", "5", "6", "7", "8", "0", "0", "0", "1">>,
      <<"1", "1", "2", "2", "2", "3", "3", "3", "0", "0", "0", "1">>,
      <<"0", "0", "0", "0", "0", "0", "0", "0", "0", "0", "1", "0">>,
      <<"1", "1", "1", "1", "1", "1", "1", "1", "1", "1", "1", "1">>,
      <<"0", "0", "0", "0", "0", "0", "0", "0", "0", "0", "0", "0">> }

\* every prefix with every pair of trailing digits
DigitStrings ==
    {p \o <<a, b>> : p \in CpfPrefixes \cup CnpjPrefixes, a \in Digit, b \in Digit}

\* s with its k-th character replaced by ch
Replaced(s, k, ch) == [s EXCEPT ![k] = ch]

\* texts that are no identifier: empty, too short, too long, and identifiers
\* with one character, or all of them, replaced by a letter or a blank
Malformed ==
    {<<>>, <<"1">>, <<"a">>, Repeat("1", 10), Repeat("1", 12), Repeat("1", 13),
     Repeat("1", 15), Repeat("a", 11), Repeat("a", 14)}
    \cup {Replaced(p \o <<"0", "9">>, k, ch) :
            p \in {<<"1", "2", "3", "4", "5", "6", "7", "8", "9">>,
                   <<"1", "2", "3", "4", "5", "6", "7", "8", "0", "0", "0", "1">>},
            k \in 1..11, ch \in {"a", " "}}

ValidatorNames == {"cpf_valid", "cnpj_valid"}

\* a validator about to be called on a text
InitChecksum ==
    /\ AtRest
    /\ \E f \in ValidatorNames, s \in DigitStrings \cup Malformed :
           call = [fn |-> f, arg |-> s, out |-> <<>>, done |-> FALSE]

\* the call
ApplyChecksum ==
    /\ call.fn \in ValidatorNames
    /\ ~call.done
    /\ call' = [call EXCEPT
                   !.out = IF call.fn = "cpf_valid" THEN cpf_valid(call.arg)
                           ELSE cnpj_valid(call.arg),
                   !.done = TRUE]
    /\ UNCHANGED <<psVars, runVars, loadVars, dlVars>>

NextChecksum == ApplyChecksum

SpecChecksum == InitChecksum /\ [][NextChecksum]_vars

\* a text of exactly n digits
IsDigits(s, n) == Len(s) = n /\ \A k \in 1..n : s[k] \in Digit

\* the sum of the leading digits of s times the weights w
RECURSIVE Dot(_, _, _)
Dot(s, w, n) == IF n = 0 THEN 0 ELSE int(s[n]) * w[n] + Dot(s, w, n - 1)

\* the check digit the rule gives for the weights w
RuleDigit(s, w) ==
    LET r == Dot(s, w, Len(w)) % 11 IN IF r < 2 THEN 0 ELSE 11 - r

\* s has its two trailing digits equal to the check digits for w1 and w2,
\* and its digits are not all the same
Checks(s, w1, w2) ==
    /\ int(s[Len(w1) + 1]) = RuleDigit(s, w1)
    /\ int(s[Len(w2) + 1]) = RuleDigit(s, w2)
    /\ \E k \in 1..Len(s) : s[k] # s[1]

\* C16: on a text of 11 digits the individual-identifier validator returns
\* true iff the two trailing digits are the check digits for the weights
\* 10..2 and 11..2 and the digits are not all the same; on a text of 14
\* digits the company-identifier validator does so with its own weights
C16_ChecksumRule ==
    (call.fn \in ValidatorNames /\ call.done) =>
        /\ (call.fn = "cpf_valid" /\ IsDigits(call.arg, 11)) =>
               call.out = Returns(Checks(call.arg,
                                         <<10, 9, 8, 7, 6, 5, 4, 3, 2>>,
                                         <<11, 10, 9, 8, 7, 6, 5, 4, 3, 2>>))
        /\ (call.fn = "cnpj_valid" /\ IsDigits(call.arg, 14)) =>
               call.out = Returns(Checks(call.arg,
                                         <<5, 4, 3, 2, 9, 8, 7, 6, 5, 4, 3, 2>>,
                                         <<6, 5, 4, 3, 2, 9, 8, 7, 6, 5, 4, 3, 2>>))

\* 12345678000195 accepted by the company-identifier validator: its first
\* sum leaves the remainder 2, so its first check digit is 9
C16_Witness ==
    /\ call.fn = "cnpj_valid"
    /\ call.done
    /\ call.arg = <<"1", "2", "3", "4", "5", "6", "7", "8", "0", "0", "0", "1", "9", "5">>
    /\ call.out = Returns(TRUE)

\* the length a validator requires
RequiredLen(f) == IF f = "cpf_valid" THEN 11 ELSE 14

\* C17: a validator returns false, and raises nothing, on every text of the
\* wrong length or with a character that is no digit
C17_Original ==
    (call.fn \in ValidatorNames /\ call.done /\ ~IsDigits(call.arg, RequiredLen(call.fn)))
        => call.out = Returns(FALSE)

(***************************************************************************)
(* process_and_load_file on the establishments table                       *)
(***************************************************************************)

\* the missing value of a text column
NA == <<"NA">>

\* astype(str) on a text cell: the missing value becomes the text nan
text_str(t) == IF t = NA THEN <<"n", "a", "n">> ELSE t

\* _digits_only
digits_only(t) == SelectSeq(text_str(t), LAMBDA ch : ch \in Digit)

\* _ensure_len on a text cell
ensure_len_text(t, length) ==
    LET d == digits_only(t) IN IF Len(d) = length THEN d ELSE NA

\* the identifier columns of an establishment, which are its critical fields
EstabIdColumns == {"cnpj_basico", "cnpj_ordem", "cnpj_dv"}

\* the columns modelled; pais_codigo holds a code or NULL
EstabColumnSet == EstabIdColumns \cup {"pais_codigo"}

\* a cell of column c is missing
isna(row, c) == IF c \in EstabIdColumns THEN row[c] = NA ELSE row[c] = NULL

\* rows of estabelecimentos.csv: a base of 8 or 3 digits, the order 0001, the
\* right check digits (95) or wrong ones (96), a known or unknown country
EstabRows ==
    [cnpj_basico : {<<"1", "2", "3", "4", "5", "6", "7", "8">>, <<"1", "2", "3">>},
     cnpj_ordem : {<<"0", "0", "0", "1">>},
     cnpj_dv : {<<"9", "5">>, <<"9", "6">>},
     pais_codigo : Codes]

EstabChunks == UNION {[1..n -> EstabRows] : n \in 1..chunk_size}

\* EstabelecimentosSchema.clean on the columns modelled: the repaired rows
\* and the masks, with invalid_cnpj present only when some row is in it
EstabelecimentosSchema_clean(rows) ==
    LET df == [k \in 1..Len(rows) |->
                  [rows[k] EXCEPT !.cnpj_basico = ensure_len_text(@, 8),
                                  !.cnpj_ordem = ensure_len_text(@, 4),
                                  !.cnpj_dv = ensure_len_text(@, 2)]]
        full(k) == digits_only(df[k].cnpj_basico) \o digits_only(df[k].cnpj_ordem)
                       \o digits_only(df[k].cnpj_dv)
        invalid_mask == {k \in 1..Len(rows) :
                            Len(full(k)) = 14 /\ ~cnpj_valid(full(k)).val}
    IN [df |-> df,
        masks |-> [m \in (IF invalid_mask # {} THEN {"invalid_cnpj"} ELSE {}) |->
                      invalid_mask]]

\* DIFF_COLUMNS_MAP["estabelecimentos"], among the columns modelled
EstabDiffColumns == EstabIdColumns

\* a validate that cleans whatever the level
validate_estabelecimentos_always(level, rows) ==
    [df |-> EstabelecimentosSchema_clean(rows).df,
     masks |-> EstabelecimentosSchema_clean(rows).masks,
     telemetry |-> [level |-> level, null_deltas |-> EmptyDict,
                    changed_counts |-> EmptyDict]]

\* validation.validate for estabelecimentos
validate_estabelecimentos(level, rows) ==
    IF level = "none"
    THEN [df |-> rows, masks |-> EmptyDict,
          telemetry |-> [level |-> level, null_deltas |-> EmptyDict,
                         changed_counts |-> EmptyDict]]
    ELSE LET cleaned == EstabelecimentosSchema_clean(rows)
             after == cleaned.df
             nulls(rr, c) == Cardinality({k \in 1..Len(rr) : isna(rr[k], c)})
             deltas == [c \in EstabColumnSet |-> nulls(after, c) - nulls(rows, c)]
             cnt(c) == Cardinality({k \in 1..Len(rows) :
                            text_str(rows[k][c]) # text_str(after[k][c])})
             changed_counts ==
                 IF level = "aggressive"
                 THEN [c \in {d \in EstabDiffColumns : cnt(d) # 0} |-> cnt(c)]
                 ELSE EmptyDict
         IN [df |-> after, masks |-> cleaned.masks,
             telemetry |-> [level |-> level, null_deltas |-> deltas,
                            changed_counts |-> changed_counts]]

\* the reference tables validate_chunk requires for estabelecimentos
EstabDomains == <<"paises", "municipios", "cnaes", "empresas">>

\* validate_chunk for estabelecimentos, with pais_codigo as the one
\* reference column modelled
validate_chunk_estabelecimentos(cfg, cache, d, rows) ==
    LET strict == cfg.strict_fk_validation
        counted == [t \in Range(EstabDomains) |->
                       IF t = "empresas" THEN Range(d.empresas) ELSE d[t]]
        missing == ensure_domains_loaded(counted, EstabDomains, strict)
        paises == get_domain_set(cache, d, "paises")
        municipios == get_domain_set(paises.cache, d, "municipios")
        cnaes == get_domain_set(municipios.cache, d, "cnaes")
        v1 == validate_fk_set(rows, "pais_codigo", paises.s, strict)
    IN IF missing # NULL
       THEN [rows |-> rows, fk_violations |-> EmptyDict, cache |-> cache,
             error |-> [type |-> "RuntimeError", table |-> missing]]
       ELSE IF v1.error.type # "none"
       THEN [rows |-> v1.rows, fk_violations |-> EmptyDict, cache |-> cnaes.cache,
             error |-> v1.error]
       ELSE [rows |-> v1.rows,
             fk_violations |-> [l \in (IF v1.mask # {} THEN {"pais_codigo"} ELSE {}) |->
                                   v1.mask],
             cache |-> cnaes.cache, error |-> NoError]

\* the quarantine lines of one reason for the rows of a mask
estab_records(i, rows, reason, fields, mask) ==
    LET idx == MaskSeq(Len(rows), mask)
    IN [j \in 1..Len(idx) |->
            [chunk |-> i, reason |-> reason, fields |-> fields,
             pos |-> idx[j], row |-> rows[idx[j]]]]

\* rows that are dropped whatever the flag says
skip_invalid_always(n, invalid, enabled) == MaskSeq(n, (1..n) \ invalid)

\* the rows that stay in the chunk, by their place in it: all of them, or
\* those outside the mask when skip_invalid_estabelecimentos_cnpj is set
skip_invalid(n, invalid, enabled) ==
    IF enabled THEN MaskSeq(n, (1..n) \ invalid) ELSE [k \in 1..n |-> k]

\* the loader before run_loader is called, with the reference tables and
\* empresas already loaded
InitEstab ==
    /\ data = EmptyData
    /\ ret = [op |-> "init", arg |-> None, val |-> FALSE]
    /\ RunIdle
    /\ settings \in [strict_fk_validation : Bool, enable_quality_gates : Bool,
                     auto_repair_level : Levels,
                     skip_invalid_estabelecimentos_cnpj : Bool]
    /\ db = [paises |-> {"1"}, municipios |-> {"1"}, cnaes |-> {"1"},
             empresas |-> <<[chunk |-> 0, pos |-> 1,
                             row |-> [cnpj_basico |-> "12345678",
                                      natureza_juridica_codigo |-> "1",
                                      qualificacao_responsavel |-> NULL]]>>,
             estabelecimentos |-> <<>>]
    /\ conn = [open |-> FALSE, pending |-> <<>>, commits |-> 0, rollbacks |-> 0]
    /\ DOMAIN_CACHE = EmptyDict
    /\ lpc = "idle"
    /\ chunk = [i |-> 0, rows |-> <<>>, pos |-> <<>>]
    /\ totals = [total_rows |-> 0, chunks_processed |-> 0, quality_gate_chunks |-> 0,
                 invalid_cnpj_rows |-> 0, read |-> 0, short |-> FALSE]
    /\ files = [telemetry |-> <<>>, quarantine |-> <<>>, summary |-> <<>>]
    /\ error = NoError
    /\ hist = <<>>
    /\ processing = [order |-> <<>>, loaded |-> {}]
    /\ call = [fn |-> "none", arg |-> <<>>, out |-> <<>>, done |-> FALSE]
    /\ DownloadIdle

\* a loop that never takes the chunk as emptied
no_rows_left_never(skipping, n) == FALSE

\* the skip left no row: the loop goes on with the next chunk
no_rows_left(skipping, n) == skipping /\ n = 0

\* one pass of the loop of process_and_load_file on estabelecimentos up to the
\* bulk load: repair, quality gate, critical fields, invalid identifiers and
\* their skipping, referential validation and its quarantine
EstabProcessChunk(rows) ==
    /\ lpc = "read"
    /\ ~totals.short
    /\ totals.read + Len(rows) <= MaxFileRows
    /\ \E v \in {validate_estabelecimentos(settings.auto_repair_level, rows)} :
       \E has_mask \in {"invalid_cnpj" \in DOMAIN v.masks} :
       \E invalid \in {IF has_mask THEN v.masks["invalid_cnpj"] ELSE {}} :
       \E skipping \in {has_mask /\ settings.skip_invalid_estabelecimentos_cnpj} :
       \E keep \in {skip_invalid(Len(v.df), invalid, skipping)} :
       \E kept \in {[j \in 1..Len(keep) |-> v.df[keep[j]]]} :
       \E vc \in {validate_chunk_estabelecimentos(settings, DOMAIN_CACHE, db, kept)} :
       LET i == Len(hist) + 1
           rows_count == Len(v.df)
           gated == gate_applies(settings, rows_count)
           triggers == IF gated THEN gate_triggers(v.telemetry, rows_count) ELSE EmptyDict
           flagged == gated /\ DOMAIN triggers # {}
           telemetry_record == [chunk |-> i, rows |-> rows_count,
                                telemetry |-> v.telemetry, quality_gate |-> triggers]
           files1 == IF flagged
                     THEN [files EXCEPT
                              !.telemetry = Append(@, telemetry_record),
                              !.quarantine = Append(@,
                                  [chunk |-> i, reason |-> "quality_gate",
                                   trigger_columns |-> triggers, rows |-> rows_count])]
                     ELSE IF gated THEN files
                     ELSE [files EXCEPT !.telemetry = Append(@, telemetry_record)]
           crit == estab_records(i, v.df, "critical_fields_null", EstabIdColumns,
                       {k \in 1..rows_count : \E c \in EstabIdColumns : isna(v.df[k], c)})
           bad == estab_records(i, v.df, "invalid_cnpj", EstabIdColumns, invalid)
           emptied == no_rows_left(skipping, Len(kept))
           raised == vc.error.type # "none"
           fk == IF raised \/ "pais_codigo" \notin DOMAIN vc.fk_violations THEN <<>>
                 ELSE LET r == estab_records(i, vc.rows, "fk_violation", {"pais_codigo"},
                                             vc.fk_violations["pais_codigo"])
                      IN [j \in 1..Len(r) |-> [r[j] EXCEPT !.pos = keep[@]]]
           h == [df |-> v.df, telemetry |-> v.telemetry, outcome |-> "flagged",
                 before |-> [commits |-> conn.commits, rollbacks |-> conn.rollbacks]]
           totals1 == [totals EXCEPT
                          !.read = @ + Len(rows),
                          !.short = Len(rows) < chunk_size,
                          !.quality_gate_chunks = IF flagged THEN @ + 1 ELSE @,
                          !.invalid_cnpj_rows =
                              IF ~flagged /\ skipping THEN @ + Cardinality(invalid) ELSE @]
       IN /\ totals' = totals1
          /\ IF quality_gate_continue(flagged)
             THEN /\ files' = files1
                  /\ hist' = Append(hist, h)
                  /\ UNCHANGED <<lpc, chunk, DOMAIN_CACHE, error>>
             ELSE IF emptied
             THEN /\ files' = [files1 EXCEPT !.quarantine = @ \o crit \o bad]
                  /\ hist' = Append(hist, [h EXCEPT !.outcome = "emptied"])
                  /\ UNCHANGED <<lpc, chunk, DOMAIN_CACHE, error>>
             ELSE /\ DOMAIN_CACHE' = vc.cache
                  /\ chunk' = [i |-> i, rows |-> vc.rows, pos |-> keep]
                  /\ files' = [files1 EXCEPT !.quarantine = @ \o crit \o bad \o fk]
                  /\ lpc' = IF raised THEN "raised" ELSE "load"
                  /\ error' = IF vc.error.type = "ValueError"
                              THEN [type |-> "ValueError", label |-> vc.error.label,
                                    sample |-> vc.error.sample, total |-> vc.error.total,
                                    telemetry_after |-> v.telemetry]
                              ELSE IF raised THEN vc.error ELSE error
                  /\ hist' = Append(hist,
                                 [h EXCEPT !.outcome = IF raised THEN "raised"
                                                       ELSE "validated"])
    /\ UNCHANGED <<settings, db, conn>>
    /\ UNCHANGED <<psVars, runVars, fnVars, processing>>

\* the rest of the pass: fast_load_chunk into estabelecimentos, then the totals
EstabLoadChunk(copy_outcome, n, commit_outcome) ==
    /\ lpc = "load"
    /\ n < Len(chunk.rows)
    /\ LET entries == [j \in 1..Len(chunk.rows) |->
                          [chunk |-> chunk.i, pos |-> chunk.pos[j], row |-> chunk.rows[j]]]
           c1 == copy_expert(conn, entries, copy_outcome, n)
       IN IF copy_outcome # "ok" \/ commit_outcome # "ok"
          THEN /\ conn' = rollback(c1)
               /\ lpc' = "raised"
               /\ error' = [type |-> "DatabaseError"]
               /\ hist' = [hist EXCEPT ![Len(hist)].outcome = "load_failed"]
               /\ UNCHANGED <<db, totals>>
          ELSE /\ conn' = [c1 EXCEPT !.pending = <<>>, !.commits = @ + 1]
               /\ db' = [db EXCEPT !.estabelecimentos = @ \o c1.pending]
               /\ lpc' = "read"
               /\ totals' = [totals EXCEPT !.total_rows = @ + Len(chunk.rows),
                                           !.chunks_processed = @ + 1]
               /\ hist' = [hist EXCEPT ![Len(hist)].outcome = "loaded"]
               /\ UNCHANGED error
    /\ UNCHANGED <<settings, DOMAIN_CACHE, chunk, files>>
    /\ UNCHANGED <<psVars, runVars, fnVars, processing>>

\* the reader is exhausted: the summary is written and the table is done
EstabFinishTable ==
    /\ lpc = "read"
    /\ files' = [files EXCEPT !.summary = Append(@,
                    [rows_total |-> totals.total_rows,
                     chunks_processed |-> totals.chunks_processed,
                     quality_gate_chunks |-> totals.quality_gate_chunks,
                     invalid_cnpj_rows_skipped |-> totals.invalid_cnpj_rows])]
    /\ lpc' = "done"
    /\ UNCHANGED <<settings, db, conn, DOMAIN_CACHE, chunk, totals, error, hist>>
    /\ UNCHANGED <<psVars, runVars, fnVars, processing>>

NextEstab ==
    \/ \E connected \in Bool : RunLoader(connected)
    \/ \E rows \in EstabChunks : EstabProcessChunk(rows)
    \/ \E copy_outcome \in Outcomes, commit_outcome \in Outcomes, n \in 0..(chunk_size - 1) :
          EstabLoadChunk(copy_outcome, n, commit_outcome)
    \/ EstabFinishTable
    \/ RunLoaderFinish
    \/ RunLoaderExcept

SpecEstab == InitEstab /\ [][NextEstab]_vars

\* the identifier of a repaired row has its 14 digits and they fail the checksum
FailsChecksum(row) ==
    /\ \A c \in EstabIdColumns : row[c] # NA
    /\ LET full == row.cnpj_basico \o row.cnpj_ordem \o row.cnpj_dv
       IN /\ IsDigits(full, 14)
          /\ ~Checks(full, <<5, 4, 3, 2, 9, 8, 7, 6, 5, 4, 3, 2>>,
                     <<6, 5, 4, 3, 2, 9, 8, 7, 6, 5, 4, 3, 2>>)

\* the quarantine lines with reason invalid_cnpj for row k of chunk i
InvalidCnpjLines(i, k) ==
    {j \in 1..Len(files.quarantine) :
        /\ files.quarantine[j].reason = "invalid_cnpj"
        /\ files.quarantine[j].chunk = i
        /\ files.quarantine[j].pos = k}

\* the rows of chunk i in the table, by their place in the chunk
EstabInTable(i) ==
    {db.estabelecimentos[j].pos : j \in {n \in 1..Len(db.estabelecimentos) :
                                            db.estabelecimentos[n].chunk = i}}

\* the rows of the chunks that passed the gate whose identifier fails the
\* checksum
FailingRows ==
    {p \in (1..Len(hist)) \X (1..chunk_size) :
        /\ hist[p[1]].outcome # "flagged"
        /\ p[2] <= Len(hist[p[1]].df)
        /\ FailsChecksum(hist[p[1]].df[p[2]])}

LinesOf(reason) ==
    {j \in 1..Len(files.quarantine) : files.quarantine[j].reason = reason}

\* every row of chunk i was dropped as an invalid identifier
AllDropped(i) ==
    /\ settings.skip_invalid_estabelecimentos_cnpj
    /\ settings.auto_repair_level # "none"
    /\ hist[i].outcome # "flagged"
    /\ \A k \in 1..Len(hist[i].df) : FailsChecksum(hist[i].df[k])

EstabLoadStep ==
    \E copy_outcome \in Outcomes, commit_outcome \in Outcomes, n \in 0..(chunk_size - 1) :
        EstabLoadChunk(copy_outcome, n, commit_outcome)

\* the loader runs on: the chunk in hand goes to the bulk load, and a reader
\* that hands out no further chunk is exhausted
SpecEstabLive == SpecEstab /\ WF_vars(EstabLoadStep) /\ WF_vars(EstabFinishTable)

\* C26: a table being read ends as done or as failed, and stays so; done
\* means every chunk read was loaded, flagged or emptied and the summary is
\* written; a table fails only in strict mode or after a failed load, so
\* with relaxed validation and no load failure it ends as done whatever its
\* rows hold
C26_TableTerminates ==
    /\ (lpc = "read") ~> (lpc \in {"done", "raised"})
    /\ [](lpc \in {"raised", "aborted"} =>
            \/ settings.strict_fk_validation
            \/ \E i \in 1..Len(hist) : hist[i].outcome = "load_failed")
    /\ [](lpc \in {"done", "closed"} =>
            /\ Len(files.summary) = 1
            /\ \A i \in 1..Len(hist) :
                   hist[i].outcome \in {"loaded", "flagged", "emptied"})
    /\ [][/\ lpc \in {"done", "closed"} => lpc' \in {"done", "closed"}
          /\ lpc \in {"raised", "aborted"} => lpc' \in {"raised", "aborted"}]_vars

\* a relaxed run ended as done after a flagged chunk and a chunk whose row
\* had a malformed identifier and an unmatched code
C26_Witness ==
    /\ ~settings.strict_fk_validation
    /\ lpc = "done"
    /\ Len(hist) = 2
    /\ hist[1].outcome = "flagged"
    /\ hist[2].outcome = "loaded"
    /\ LinesOf("invalid_cnpj") # {}
    /\ LinesOf("fk_violation") # {}

(***************************************************************************)
(* The cleaning pass of validation.py, column by column                    *)
(***************************************************************************)

\* str.strip on a text
RECURSIVE lstrip(_)
lstrip(t) == IF t # <<>> /\ Head(t) = " " THEN lstrip(Tail(t)) ELSE t

RECURSIVE rstrip(_)
rstrip(t) == IF t # <<>> /\ t[Len(t)] = " " THEN rstrip(SubSeq(t, 1, Len(t) - 1)) ELSE t

strip(t) == rstrip(lstrip(t))

\* str.split / re.split on the separator characters seps
RECURSIVE split(_, _)
split(t, seps) ==
    LET at == {k \in 1..Len(t) : t[k] \in seps}
    IN IF at = {} THEN <<t>>
       ELSE LET k == CHOOSE j \in at : \A m \in at : j <= m
            IN <<SubSeq(t, 1, k - 1)>> \o split(SubSeq(t, k + 1, Len(t)), seps)

\* ",".join
RECURSIVE join(_)
join(toks) ==
    IF Len(toks) = 0 THEN <<>>
    ELSE IF Len(toks) = 1 THEN toks[1]
    ELSE toks[1] \o <<",">> \o join(Tail(toks))

\* xs.startswith("{") and xs.endswith("}")
bracketed(xs) == xs # <<>> /\ Head(xs) = "{" /\ xs[Len(xs)] = "}"

\* _normalize_pg_array_digits, for one cell
normalize_pg_array_digits(x) ==
    IF x = NA THEN NA
    ELSE LET xs == strip(x)
             parts == IF bracketed(xs)
                      THEN split(SubSeq(xs, 2, Len(xs) - 1), {","})
                      ELSE SelectSeq(split(xs, {";", ","}), LAMBDA q : strip(q) # <<>>)
             digits == [j \in 1..Len(parts) |->
                           SelectSeq(strip(parts[j]), LAMBDA ch : ch \in Digit)]
             clean == SelectSeq(digits, LAMBDA d : Len(d) = 7)
         IN IF xs = <<>> \/ clean = <<>> THEN NA
            ELSE <<"{">> \o join(clean) \o <<"}">>

\* int(t) for a text of digits
RECURSIVE to_int(_)
to_int(t) == IF t = <<>> THEN 0 ELSE 10 * to_int(SubSeq(t, 1, Len(t) - 1)) + int(t[Len(t)])

\* str(n) for a natural number
RECURSIVE str(_)
str(n) ==
    LET ch == CHOOSE c \in Digit : int(c) = n % 10
    IN IF n < 10 THEN <<ch>> ELSE str(n \div 10) \o <<ch>>

\* sorted(nums)
RECURSIVE sorted(_)
sorted(nums) ==
    IF nums = {} THEN <<>>
    ELSE LET least == CHOOSE n \in nums : \A m \in nums : n <= m
         IN <<least>> \o sorted(nums \ {least})

\* _dedup_sort_pg_array, for one cell; int(t) raises on a token that is no
\* number and the cell becomes null
dedup_sort_pg_array(x) ==
    IF x = NA THEN NA
    ELSE LET xs == strip(x)
             toks == SelectSeq(split(SubSeq(xs, 2, Len(xs) - 1), {","}),
                               LAMBDA q : q # <<>>)
             nums == sorted({to_int(toks[j]) : j \in 1..Len(toks)})
         IN IF ~bracketed(xs) THEN NA
            ELSE IF \E j \in 1..Len(toks) : \E k \in 1..Len(toks[j]) : toks[j][k] \notin Digit
            THEN NA
            ELSE IF nums = <<>> THEN NA
            ELSE <<"{">> \o join([j \in 1..Len(nums) |-> str(nums[j])]) \o <<"}">>

\* the clean method of the schema of config on one cell of a column:
\* EmpresasSchema, EstabelecimentosSchema, SociosSchema and SimplesSchema
clean_column(config, level, column, x) ==
    IF column = "cnpj_basico" THEN ensure_len_text(x, 8)
    ELSE IF config # "estabelecimentos" THEN x
    ELSE IF column = "cnpj_ordem" THEN ensure_len_text(x, 4)
    ELSE IF column = "cnpj_dv" THEN ensure_len_text(x, 2)
    ELSE IF column = "cep" THEN ensure_len_text(x, 8)
    ELSE IF column = "cnae_fiscal_secundaria"
    THEN LET basic == normalize_pg_array_digits(IF x = NA THEN <<>> ELSE x)
         IN IF level = "aggressive" THEN dedup_sort_pg_array(basic) ELSE basic
    ELSE x

\* validation.validate on a frame of one column and one row
validate_column(config, level, column, x) ==
    IF level = "none" THEN x ELSE clean_column(config, level, column, x)

\* tokens of a secondary-activity list: codes with leading zeros, a code
\* without, a code written with a dash, and a token that is no code
ActivityTokens ==
    { <<"0", "0", "0", "0", "0", "0", "7">>,
      <<"0", "0", "0", "0", "0", "0", "3">>,
      <<"1", "2", "3", "4", "5", "6", "7">>,
      <<"1", "2", "3", "4", "-", "5", "6", "8">>,
      <<"1", "5">> }

\* tokens in a list, at most
MaxTokens == 3

\* a list written as bracketed array text, or separated by ; or ,
RECURSIVE joined(_, _)
joined(toks, sep) ==
    IF Len(toks) = 0 THEN <<>>
    ELSE IF Len(toks) = 1 THEN toks[1]
    ELSE toks[1] \o <<sep>> \o joined(Tail(toks), sep)

ActivityCells ==
    {[tokens |-> toks,
      cell |-> IF style = "{" THEN <<"{">> \o joined(toks, ",") \o <<"}">>
               ELSE joined(toks, style)] :
        toks \in UNION {[1..n -> ActivityTokens] : n \in 1..MaxTokens},
        style \in {"{", ";", ","}}
    \cup {[tokens |-> <<>>, cell |-> c] : c \in {NA, <<>>, <<" ">>, <<"{", "}">>}}

\* cells of the identifier columns
IdCells ==
    {[tokens |-> <<>>, cell |-> c] :
        c \in {NA, <<>>, <<"1", "2">>, <<"0", "0", "0", "1">>,
               <<"1", "2", "3", "4", "5", "6", "7", "8">>,
               <<"1", "2", ".", "3", "4", "5", ".", "6", "7", "8">>,
               <<"1", "2", "3", "4", "5", "6", "7", "8", "9">>}}

\* the columns modelled, kind by kind
CleanedColumns ==
    {<<"empresas", "cnpj_basico">>, <<"socios", "cnpj_basico">>,
     <<"simples", "cnpj_basico">>, <<"estabelecimentos", "cnpj_basico">>,
     <<"estabelecimentos", "cnpj_ordem">>, <<"estabelecimentos", "cnpj_dv">>,
     <<"estabelecimentos", "cep">>, <<"estabelecimentos", "cnae_fiscal_secundaria">>}

\* a one-cell frame about to be validated; out holds the results of the
\* passes made so far
InitClean ==
    /\ AtRest
    /\ \E cc \in CleanedColumns, level \in Levels :
       \E x \in (IF cc[2] = "cnae_fiscal_secundaria" THEN ActivityCells ELSE IdCells) :
           call = [fn |-> "validate",
                   arg |-> [config |-> cc[1], level |-> level, column |-> cc[2],
                            cell |-> x.cell, tokens |-> x.tokens],
                   out |-> <<>>, done |-> FALSE]

\* one pass of validate, on the frame or on the result of the pass before
Validate ==
    /\ call.fn = "validate"
    /\ ~call.done
    /\ LET x == IF call.out = <<>> THEN call.arg.cell ELSE call.out[Len(call.out)]
           y == validate_column(call.arg.config, call.arg.level, call.arg.column, x)
       IN call' = [call EXCEPT !.out = Append(@, y), !.done = (Len(call.out) = 1)]
    /\ UNCHANGED <<psVars, runVars, loadVars, dlVars>>

NextClean == Validate

SpecClean == InitClean /\ [][NextClean]_vars

\* C15: a second cleaning pass returns what the first returned: the same
\* value or the same null
C15_Original ==
    (call.fn = "validate" /\ Len(call.out) = 2) => call.out[2] = call.out[1]

\* the codes of a list: its tokens that have 7 digits, without their other
\* characters
CodesOf(tokens) ==
    {d \in {SelectSeq(tokens[j], LAMBDA ch : ch \in Digit) : j \in 1..Len(tokens)} :
        Len(d) = 7}

\* the tokens of bracketed array text
Decoded(x) == split(SubSeq(x, 2, Len(x) - 1), {","})

\* C18: the result of the normalizer is null when the list has no valid
\* code; otherwise it is bracketed text whose tokens are exactly the valid
\* 7-digit codes of the list, each written with its 7 digits, and in
\* aggressive mode without repetition and in ascending order
C18_Original ==
    (call.fn = "validate" /\ call.arg.column = "cnae_fiscal_secundaria"
        /\ call.arg.level # "none" /\ call.arg.tokens # <<>> /\ Len(call.out) >= 1) =>
        LET y == call.out[1]
            codes == CodesOf(call.arg.tokens)
        IN IF codes = {} THEN y = NA
           ELSE /\ y # NA
                /\ bracketed(y)
                /\ Range(Decoded(y)) = codes
                /\ call.arg.level = "aggressive" =>
                      \A j \in 1..Len(Decoded(y)) : \A k \in 1..Len(Decoded(y)) :
                          j < k => to_int(Decoded(y)[j]) < to_int(Decoded(y)[k])

(***************************************************************************)
(* run_loader over its tables: two reference tables, then empresas         *)
(***************************************************************************)

\* run_loader's processing_order, for the tables modelled
processing_order == <<"qualificacoes", "naturezas", "empresas">>

\* ETL_CONFIG[config_name]["table_name"]
table_name(config_name) ==
    IF config_name = "qualificacoes" THEN "qualificacoes_socios"
    ELSE IF config_name = "naturezas" THEN "naturezas_juridicas"
    ELSE config_name

\* the same filters, handing the tables back in reverse
filtered_reversed(only, exclude) ==
    LET kept == SelectSeq(processing_order,
                          LAMBDA x : (only = {} \/ x \in only) /\ x \notin exclude)
    IN [k \in 1..Len(kept) |-> kept[Len(kept) + 1 - k]]

\* the only / exclude filters; {} stands for None and for the empty list,
\* which filter nothing
filtered(only, exclude) ==
    LET kept == IF only = {} THEN processing_order
                ELSE SelectSeq(processing_order, LAMBDA x : x \in only)
    IN IF exclude = {} THEN kept
       ELSE SelectSeq(kept, LAMBDA x : x \notin exclude)

\* the codes in the CSV file of a reference table of this release
ReferenceFile == {"1"}

\* every file is taken to be there
file_path_exists_always(config_name, absent) == TRUE

\* file_path.exists() for extracted_dir/<config_name>/<config_name>.csv
file_path_exists(config_name, absent) == config_name \notin absent

\* the loader before run_loader(only, exclude) is called: the tables hold
\* nothing or the rows of an earlier run, a file of the release may be absent
InitOrder ==
    /\ data = EmptyData
    /\ ret = [op |-> "init", arg |-> None, val |-> FALSE]
    /\ RunIdle
    /\ settings \in [strict_fk_validation : Bool, enable_quality_gates : {FALSE},
                     auto_repair_level : {"none"}]
    /\ db \in [naturezas_juridicas : {{}, {"2"}}, qualificacoes_socios : {{}, {"1"}},
               empresas : {<<>>}]
    /\ conn = [open |-> FALSE, pending |-> <<>>, commits |-> 0, rollbacks |-> 0]
    /\ DOMAIN_CACHE \in {EmptyDict, [k \in {"naturezas_juridicas"} |-> {"2"}]}
    /\ lpc = "idle"
    /\ chunk = [i |-> 0, rows |-> <<>>]
    /\ totals = [total_rows |-> 0, chunks_processed |-> 0, quality_gate_chunks |-> 0,
                 read |-> 0, short |-> FALSE]
    /\ files = [telemetry |-> <<>>, quarantine |-> <<>>, summary |-> <<>>]
    /\ error = NoError
    /\ hist = <<>>
    /\ processing \in [order : {<<>>}, loaded : {{}},
                       only : {{}, {"empresas"}},
                       exclude : {{}, {"naturezas"}, {"empresas"}},
                       absent : {{}, {"naturezas"}, {"empresas"}}]
    /\ call = [fn |-> "none", arg |-> <<>>, out |-> <<>>, done |-> FALSE]
    /\ DownloadIdle

\* run_loader up to its loop over the tables: connect (return when it
\* fails), clear_domain_cache, the filters
RunLoaderOrdered(connected) ==
    /\ lpc = "idle"
    /\ IF connected
       THEN /\ conn' = [conn EXCEPT !.open = TRUE]
            /\ DOMAIN_CACHE' = EmptyDict
            /\ processing' = [processing EXCEPT
                                 !.order = filtered(processing.only, processing.exclude)]
            /\ lpc' = "tables"
       ELSE /\ lpc' = "returned"
            /\ UNCHANGED <<conn, DOMAIN_CACHE, processing>>
    /\ UNCHANGED <<settings, db, chunk, totals, files, error, hist>>
    /\ UNCHANGED <<psVars, runVars, fnVars>>

\* process_and_load_file on a reference table: nothing when its file is
\* absent; else its one chunk is loaded and committed and its telemetry line
\* and summary are written, or the load fails and is rolled back
LoadReferenceTable(outcome) ==
    /\ lpc = "tables"
    /\ processing.order # <<>>
    /\ Head(processing.order) # "empresas"
    /\ LET config_name == Head(processing.order)
           rows_count == Cardinality(ReferenceFile)
       IN IF ~file_path_exists(config_name, processing.absent)
          THEN /\ processing' = [processing EXCEPT !.order = Tail(@)]
               /\ UNCHANGED <<db, conn, lpc, files, error>>
          ELSE IF outcome = "ok"
          THEN /\ db' = [db EXCEPT ![table_name(config_name)] = @ \cup ReferenceFile]
               /\ conn' = [conn EXCEPT !.commits = @ + 1]
               /\ files' = [files EXCEPT
                              !.telemetry = Append(@,
                                  [table |-> table_name(config_name), chunk |-> 1,
                                   rows |-> rows_count,
                                   telemetry |-> [level |-> settings.auto_repair_level,
                                                  null_deltas |-> EmptyDict,
                                                  changed_counts |-> EmptyDict],
                                   quality_gate |-> EmptyDict]),
                              !.summary = Append(@,
                                  [table |-> table_name(config_name),
                                   rows_total |-> rows_count, chunks_processed |-> 1,
                                   quality_gate_chunks |-> 0])]
               /\ processing' = [processing EXCEPT !.order = Tail(@),
                                                   !.loaded = @ \cup {config_name}]
               /\ UNCHANGED <<lpc, error>>
          ELSE /\ conn' = rollback(conn)
               /\ lpc' = "raised"
               /\ error' = [type |-> "DatabaseError"]
               /\ UNCHANGED <<db, files, processing>>
    /\ UNCHANGED <<settings, DOMAIN_CACHE, chunk, totals, hist>>
    /\ UNCHANGED <<psVars, runVars, fnVars>>

\* process_and_load_file on empresas: nothing when its file is absent, else
\* the file is opened for reading in chunks
OpenFactTable ==
    /\ lpc = "tables"
    /\ processing.order # <<>>
    /\ Head(processing.order) = "empresas"
    /\ processing' = [processing EXCEPT !.order = Tail(@)]
    /\ lpc' = IF file_path_exists("empresas", processing.absent) THEN "read" ELSE lpc
    /\ UNCHANGED <<settings, db, conn, DOMAIN_CACHE, chunk, totals, files, error, hist>>
    /\ UNCHANGED <<psVars, runVars, fnVars>>

\* the loop over the tables ends without empresas
TablesDone ==
    /\ lpc = "tables"
    /\ processing.order = <<>>
    /\ lpc' = "done"
    /\ UNCHANGED <<settings, db, conn, DOMAIN_CACHE, chunk, totals, files, error, hist,
                   processing>>
    /\ UNCHANGED <<psVars, runVars, fnVars>>

NextOrder ==
    \/ \E connected \in Bool : RunLoaderOrdered(connected)
    \/ \E outcome \in Outcomes : LoadReferenceTable(outcome)
    \/ OpenFactTable
    \/ TablesDone
    \/ \E rows \in Chunks : ProcessChunk(rows)
    \/ \E copy_outcome \in Outcomes, commit_outcome \in Outcomes, n \in 0..(chunk_size - 1) :
          LoadChunk(copy_outcome, n, commit_outcome)
    \/ FinishTable
    \/ RunLoaderFinish
    \/ RunLoaderExcept

SpecOrder == InitOrder /\ [][NextOrder]_vars

\* the domain tables of empresas that hold no row
EmptyDomains == {t \in Range(EmpresasDomains) : db[t] = {}}

\* C21: while a domain table of empresas holds no row, in strict mode every
\* chunk handed to referential validation is refused with a RuntimeError
\* naming an empty table, no domain set has been fetched and no fk_violation
\* line written (nothing was compared), and empresas holds no row; in relaxed
\* mode no chunk is refused
C21_EmptyDomain ==
    EmptyDomains # {} =>
        IF settings.strict_fk_validation
        THEN /\ db.empresas = <<>>
             /\ DOMAIN_CACHE = EmptyDict \/ lpc \in {"idle", "returned"}
             /\ \A i \in 1..Len(hist) :
                    /\ hist[i].outcome = "raised"
                    /\ error.type = "RuntimeError"
                    /\ error.table \in EmptyDomains
             /\ \A j \in 1..Len(files.quarantine) :
                    files.quarantine[j].reason # "fk_violation"
        ELSE \A i \in 1..Len(hist) :
                 hist[i].outcome \in {"validated", "loaded", "load_failed"}

\* a strict run refused its first chunk of empresas because
\* qualificacoes_socios, the second table counted, is empty
C21_Witness ==
    /\ settings.strict_fk_validation
    /\ db.naturezas_juridicas # {}
    /\ db.qualificacoes_socios = {}
    /\ Len(hist) = 1
    /\ hist[1].outcome = "raised"
    /\ error.type = "RuntimeError"
    /\ lpc = "aborted"

\* the tables run_loader goes through under its filters
Included == filtered(processing.only, processing.exclude)

\* C28: whatever the filters, the tables gone through are in the declared
\* order (qualificacoes, naturezas, empresas of the nine), one after the
\* other: those still to do are the tail of the filtered list, those loaded
\* are among the ones before it, and once a chunk of empresas has been read
\* every reference table that was included and has its file is loaded
C28_DeclaredOrder ==
    lpc \notin {"idle", "returned"} =>
        LET gone == Len(Included) - Len(processing.order)
        IN /\ \A i \in 1..Len(Included), j \in 1..Len(Included) :
                 i < j => /\ Index(<<"qualificacoes", "naturezas", "empresas">>,
                                   Included[i]) > 0
                          /\ Index(<<"qualificacoes", "naturezas", "empresas">>,
                                   Included[i])
                               < Index(<<"qualificacoes", "naturezas", "empresas">>,
                                       Included[j])
           /\ gone >= 0
           /\ processing.order = SubSeq(Included, gone + 1, Len(Included))
           /\ processing.loaded \subseteq {Included[k] : k \in 1..gone}
           /\ hist # <<>> =>
                 /\ "empresas" \in {Included[k] : k \in 1..gone}
                 /\ \A c \in Range(Included) \ {"empresas"} :
                        c \notin processing.absent =>
                            /\ c \in processing.loaded
                            /\ ReferenceFile \subseteq db[table_name(c)]

\* with naturezas excluded, a chunk of empresas was read after qualificacoes
\* was loaded
C28_Witness ==
    /\ processing.exclude = {"naturezas"}
    /\ processing.only = {}
    /\ processing.loaded = {"qualificacoes"}
    /\ hist # <<>>
    /\ db.qualificacoes_socios # {}

\* the config whose file fills a reference table
SourceOf(table) == IF table = "naturezas_juridicas" THEN "naturezas" ELSE "qualificacoes"

\* C19: a run empties the Domain Cache when it starts and never removes or
\* changes an entry afterwards, and every set that enters the cache (to
\* validate a chunk) belongs to a table whose load finished earlier in this
\* run
C19_Original ==
    [][/\ (lpc = "idle" /\ lpc' = "tables") => DOMAIN_CACHE' = EmptyDict
       /\ lpc # "idle" =>
             \A t \in DOMAIN DOMAIN_CACHE :
                 t \in DOMAIN DOMAIN_CACHE' /\ DOMAIN_CACHE'[t] = DOMAIN_CACHE[t]
       /\ lpc # "idle" =>
             \A t \in DOMAIN DOMAIN_CACHE' \ DOMAIN DOMAIN_CACHE :
                 SourceOf(t) \in processing.loaded]_vars

\* the table process_and_load_file is called on next
NextTable == Head(processing.order)

\* C31: the call of process_and_load_file on a table whose file is absent
\* changes neither the tables nor the connection (no commit, no rollback),
\* writes no telemetry, quarantine or summary line, reads no chunk and raises
\* nothing, and leaves the loader at the next table of its list; so a table
\* whose file is absent is never among the tables loaded
C31_AbsentFile ==
    /\ [](processing.loaded \cap processing.absent = {})
    /\ [][(/\ lpc = "tables"
           /\ processing.order # <<>>
           /\ NextTable \in processing.absent)
          => /\ db' = db
             /\ conn' = conn
             /\ files' = files
             /\ totals' = totals
             /\ hist' = hist
             /\ error' = NoError
             /\ lpc' = "tables"
             /\ processing'.order = Tail(processing.order)
             /\ processing'.loaded = processing.loaded]_vars

\* the file of naturezas was absent: qualificacoes was loaded before it and a
\* chunk of empresas after it, with one commit and one telemetry line each
\* and none for naturezas_juridicas
C31_Witness ==
    /\ processing.absent = {"naturezas"}
    /\ processing.only = {}
    /\ processing.exclude = {}
    /\ processing.loaded = {"qualificacoes"}
    /\ Len(hist) = 1
    /\ hist[1].outcome = "loaded"
    /\ conn.commits = 2
    /\ Len(files.summary) = 1
    /\ Len(files.telemetry) = 2
    /\ files.telemetry[1].table = "qualificacoes_socios"
    /\ "table" \notin DOMAIN files.telemetry[2]

(***************************************************************************)
(* The end of a table: the summary and the optional exports                *)
(***************************************************************************)

\* what follows the summary in process_and_load_file: the metrics lines are
\* appended to the exposition file (no handler around the write), then
\* pushed (failure swallowed); the summary is pushed to the collector
\* (failure swallowed).  exports gives what each of the three meets.
export_summary(f, cfg, table, exports) ==
    LET wrote == cfg.enable_metrics_prometheus /\ exports.write = "ok"
        raised == cfg.enable_metrics_prometheus /\ exports.write = "error"
        pushed == wrote /\ cfg.enable_prometheus_push /\ exports.push = "ok"
        posted == ~raised /\ cfg.enable_otlp_push /\ exports.otlp = "ok"
    IN [files |-> [f EXCEPT
                     !.metrics = IF wrote THEN Append(@, table) ELSE @,
                     !.pushed = @ \o (IF pushed THEN <<[to |-> "aggregator", table |-> table]>>
                                      ELSE <<>>)
                                  \o (IF posted THEN <<[to |-> "collector", table |-> table]>>
                                      ELSE <<>>)],
        raised |-> raised]

\* what the three exports can meet
ExportOutcomes == [write : Outcomes, push : Outcomes, otlp : Outcomes]

\* the loader before run_loader, with the export settings in force
InitExport ==
    /\ data = EmptyData
    /\ ret = [op |-> "init", arg |-> None, val |-> FALSE]
    /\ RunIdle
    /\ settings \in [strict_fk_validation : {FALSE}, enable_quality_gates : {FALSE},
                     auto_repair_level : {"none"}, enable_metrics_prometheus : Bool,
                     enable_prometheus_push : Bool, enable_otlp_push : Bool]
    /\ db = [naturezas_juridicas |-> {}, qualificacoes_socios |-> {}, empresas |-> <<>>]
    /\ conn = [open |-> FALSE, pending |-> <<>>, commits |-> 0, rollbacks |-> 0]
    /\ DOMAIN_CACHE = EmptyDict
    /\ lpc = "idle"
    /\ chunk = [i |-> 0, rows |-> <<>>]
    /\ totals = [total_rows |-> 0, chunks_processed |-> 0, quality_gate_chunks |-> 0,
                 read |-> 0, short |-> FALSE]
    /\ files = [telemetry |-> <<>>, quarantine |-> <<>>, summary |-> <<>>,
                metrics |-> <<>>, pushed |-> <<>>]
    /\ error = NoError
    /\ hist = <<>>
    /\ processing \in [order : {<<>>}, loaded : {{}}, only : {{}},
                       exclude : {{}, {"empresas"}}, absent : {{}}]
    /\ call = [fn |-> "none", arg |-> <<>>, out |-> <<>>, done |-> FALSE]
    /\ DownloadIdle

\* process_and_load_file on a reference table, to its end: the chunk is
\* loaded and committed, its telemetry line and the summary are written,
\* then the exports; or the load fails and is rolled back
LoadReferenceTableExport(outcome, exports) ==
    /\ lpc = "tables"
    /\ processing.order # <<>>
    /\ Head(processing.order) # "empresas"
    /\ LET config_name == Head(processing.order)
           rows_count == Cardinality(ReferenceFile)
           written == [files EXCEPT
                          !.telemetry = Append(@,
                              [table |-> table_name(config_name), chunk |-> 1,
                               rows |-> rows_count,
                               telemetry |-> [level |-> settings.auto_repair_level,
                                              null_deltas |-> EmptyDict,
                                              changed_counts |-> EmptyDict],
                               quality_gate |-> EmptyDict]),
                          !.summary = Append(@,
                              [table |-> table_name(config_name),
                               rows_total |-> rows_count, chunks_processed |-> 1,
                               quality_gate_chunks |-> 0])]
           x == export_summary(written, settings, table_name(config_name), exports)
       IN IF outcome = "ok"
          THEN /\ db' = [db EXCEPT ![table_name(config_name)] = @ \cup ReferenceFile]
               /\ conn' = [conn EXCEPT !.commits = @ + 1]
               /\ files' = x.files
               /\ IF x.raised
                  THEN /\ lpc' = "raised"
                       /\ error' = [type |-> "OSError", table |-> table_name(config_name)]
                       /\ UNCHANGED processing
                  ELSE /\ processing' = [processing EXCEPT !.order = Tail(@),
                                                           !.loaded = @ \cup {config_name}]
                       /\ UNCHANGED <<lpc, error>>
          ELSE /\ conn' = rollback(conn)
               /\ lpc' = "raised"
               /\ error' = [type |-> "DatabaseError"]
               /\ UNCHANGED <<db, files, processing>>
    /\ UNCHANGED <<settings, DOMAIN_CACHE, chunk, totals, hist>>
    /\ UNCHANGED <<psVars, runVars, fnVars>>

\* the reader of empresas is exhausted: the summary, then the exports
FinishTableExport(exports) ==
    /\ lpc = "read"
    /\ LET written == [files EXCEPT !.summary = Append(@,
                          [table |-> "empresas",
                           rows_total |-> totals.total_rows,
                           chunks_processed |-> totals.chunks_processed,
                           quality_gate_chunks |-> totals.quality_gate_chunks])]
           x == export_summary(written, settings, "empresas", exports)
       IN /\ files' = x.files
          /\ IF x.raised
             THEN /\ lpc' = "raised"
                  /\ error' = [type |-> "OSError", table |-> "empresas"]
                  /\ UNCHANGED processing
             ELSE /\ lpc' = "done"
                  /\ processing' = [processing EXCEPT !.loaded = @ \cup {"empresas"}]
                  /\ UNCHANGED error
    /\ UNCHANGED <<settings, db, conn, DOMAIN_CACHE, chunk, totals, hist>>
    /\ UNCHANGED <<psVars, runVars, fnVars>>

NextExport ==
    \/ \E connected \in Bool : RunLoaderOrdered(connected)
    \/ \E outcome \in Outcomes, exports \in ExportOutcomes :
          LoadReferenceTableExport(outcome, exports)
    \/ OpenFactTable
    \/ TablesDone
    \/ \E rows \in Chunks : ProcessChunk(rows)
    \/ \E copy_outcome \in Outcomes, commit_outcome \in Outcomes, n \in 0..(chunk_size - 1) :
          LoadChunk(copy_outcome, n, commit_outcome)
    \/ \E exports \in ExportOutcomes : FinishTableExport(exports)
    \/ RunLoaderFinish
    \/ RunLoaderExcept

SpecExport == InitExport /\ [][NextExport]_vars

\* C22: a table whose summary has been written ends as done and the loader
\* goes on: it is never stopped by an error of that table's exports
C22_Original ==
    \A j \in 1..Len(files.summary) :
        ~(/\ lpc \in {"raised", "aborted"}
          /\ error.type = "OSError"
          /\ error.table = files.summary[j].table)

\* the summaries written for a table
SummariesOf(table) == {j \in 1..Len(files.summary) : files.summary[j].table = table}

\* the chunks of empresas with an outcome
ChunksWith(outcome) == {i \in 1..Len(hist) : hist[i].outcome = outcome}

\* C23: a table gets at most one summary; when the chunks of empresas are
\* exhausted it has one, whose rows_total is the number of rows committed,
\* chunks_processed the number of chunks loaded and quality_gate_chunks the
\* number of chunks flagged, every chunk read being loaded or flagged; a
\* table that aborted on an error has no summary
C23_Original ==
    /\ \A t \in {"naturezas_juridicas", "qualificacoes_socios", "empresas"} :
          Cardinality(SummariesOf(t)) <= 1
    /\ (lpc \in {"done", "closed"} /\ "empresas" \in processing.loaded) =>
          /\ Cardinality(SummariesOf("empresas")) = 1
          /\ \A j \in SummariesOf("empresas") :
                /\ files.summary[j].rows_total = Len(db.empresas)
                /\ files.summary[j].chunks_processed = Cardinality(ChunksWith("loaded"))
                /\ files.summary[j].quality_gate_chunks = Cardinality(ChunksWith("flagged"))
          /\ \A i \in 1..Len(hist) : hist[i].outcome \in {"loaded", "flagged"}
    /\ (lpc \in {"raised", "aborted"} /\ error.type = "OSError") =>
          SummariesOf(error.table) = {}

(***************************************************************************)
(* The JSONL writer: _select_jsonl_file and _write_jsonl                   *)
(***************************************************************************)

\* A directory of one kind and base name is the sequence of the sizes of its
\* files: the base file <name>.jsonl is path 0, <name>_<idx>.jsonl is path
\* idx; the files the writer has not created are absent.

\* p.exists()
exists(dir, path) == path + 1 <= Len(dir)

\* p.stat().st_size
st_size(dir, path) == dir[path + 1]

\* a selection that always takes the base file
select_jsonl_file_base(dir, max_bytes) == 0

\* the while loop of _select_jsonl_file, from idx on
RECURSIVE select_suffixed(_, _, _)
select_suffixed(dir, max_bytes, idx) ==
    IF ~exists(dir, idx) \/ st_size(dir, idx) < max_bytes THEN idx
    ELSE select_suffixed(dir, max_bytes, idx + 1)

\* _select_jsonl_file
select_jsonl_file(dir, max_bytes) ==
    IF ~exists(dir, 0) \/ st_size(dir, 0) < max_bytes THEN 0
    ELSE select_suffixed(dir, max_bytes, 1)

\* _write_jsonl: the line is appended to the selected file, created if absent
write_jsonl(dir, max_bytes, line) ==
    LET path == select_jsonl_file(dir, max_bytes)
    IN [path |-> path,
        dir |-> IF exists(dir, path) THEN [dir EXCEPT ![path + 1] = @ + line]
                ELSE Append(dir, line)]

\* files of one base name in a directory, at most
MaxFiles == 5

\* bytes of one JSON line, at most
MaxLineBytes == 3

\* the writer before its first line: no file yet, a maximum in force
InitJsonl ==
    /\ AtRest
    /\ call \in [fn : {"_write_jsonl"}, arg : [dir : {<<>>}, line : {0},
                                               max_bytes : 0..(MaxLineBytes + 1)],
                 out : [path : {0}, dir : {<<>>}], done : {FALSE}]

\* one more record is written to the directory the last call left
WriteJsonl(line) ==
    /\ call.fn = "_write_jsonl"
    /\ Len(call.out.dir) < MaxFiles
    /\ call' = [call EXCEPT !.arg.dir = call.out.dir,
                            !.arg.line = line,
                            !.out = write_jsonl(call.out.dir, call.arg.max_bytes, line),
                            !.done = TRUE]
    /\ UNCHANGED <<psVars, runVars, loadVars, dlVars>>

NextJsonl == \E line \in 1..MaxLineBytes : WriteJsonl(line)

SpecJsonl == InitJsonl /\ [][NextJsonl]_vars

\* the files of a directory whose size is below the maximum
BelowMax(dir, max_bytes) == {k \in 0..(Len(dir) - 1) : st_size(dir, k) < max_bytes}

\* C27: the file a record was appended to was absent or below the maximum
\* and every file before it (the base file, then the lower suffixes) existed
\* with a size at or above the maximum; at any time at most one file of the
\* base name is below the maximum
C27_Rotation ==
    /\ call.done =>
          /\ exists(call.arg.dir, call.out.path) =>
                st_size(call.arg.dir, call.out.path) < call.arg.max_bytes
          /\ \A k \in 0..(call.out.path - 1) :
                /\ exists(call.arg.dir, k)
                /\ st_size(call.arg.dir, k) >= call.arg.max_bytes
          /\ st_size(call.out.dir, call.out.path) =
                call.arg.line + (IF exists(call.arg.dir, call.out.path)
                                 THEN st_size(call.arg.dir, call.out.path) ELSE 0)
    /\ Cardinality(BelowMax(call.out.dir, call.arg.max_bytes)) <= 1

\* a record went to the absent <name>_2.jsonl, the base file and <name>_1
\* being full, after an earlier record was appended to a file below the
\* maximum
C27_Witness ==
    /\ call.done
    /\ call.out.path = 2
    /\ ~exists(call.arg.dir, 2)
    /\ st_size(call.arg.dir, 0) > call.arg.max_bytes
    /\ BelowMax(call.out.dir, call.arg.max_bytes) = {2}

(***************************************************************************)
(* The validation step on one chunk and the decisions taken on its result  *)
(***************************************************************************)

\* one establishments chunk, a repair level and the two switches the
\* decisions read
InitValidate ==
    /\ AtRest
    /\ call \in [fn : {"schema_validate"},
                 arg : [level : Levels, rows : EstabChunks,
                        cfg : [enable_quality_gates : Bool,
                               skip_invalid_estabelecimentos_cnpj : Bool]],
                 out : {<<>>}, done : {FALSE}]

\* process_and_load_file from schema_validate to the skip of the invalid
\* identifiers: the frame, masks and telemetry validate returns, whether the
\* gate flags the chunk, the rows taken as invalid identifiers and the rows
\* kept
ValidateChunk ==
    /\ call.fn = "schema_validate"
    /\ ~call.done
    /\ LET v == validate_estabelecimentos(call.arg.level, call.arg.rows)
           rows_count == Len(v.df)
           gated == gate_applies(call.arg.cfg, rows_count)
           triggers == IF gated THEN gate_triggers(v.telemetry, rows_count) ELSE EmptyDict
           has_mask == "invalid_cnpj" \in DOMAIN v.masks
           invalid == IF has_mask THEN v.masks["invalid_cnpj"] ELSE {}
           keep == skip_invalid(rows_count, invalid,
                       has_mask /\ call.arg.cfg.skip_invalid_estabelecimentos_cnpj)
       IN call' = [call EXCEPT
                      !.out = [df |-> v.df, masks |-> v.masks, telemetry |-> v.telemetry,
                               flagged |-> gated /\ DOMAIN triggers # {},
                               invalid |-> invalid, keep |-> keep],
                      !.done = TRUE]
    /\ UNCHANGED <<psVars, runVars, loadVars, dlVars>>

NextValidate == ValidateChunk

SpecValidate == InitValidate /\ [][NextValidate]_vars

\* C29: with repair level none the frame validate returns is the chunk it
\* was given, cell for cell, there is no mask, the null deltas and changed
\* counts are empty, no row is taken as an invalid identifier, every row is
\* kept and the gate does not flag the chunk
C29_NonePassthrough ==
    (call.done /\ call.arg.level = "none") =>
        /\ call.out.df = call.arg.rows
        /\ DOMAIN call.out.masks = {}
        /\ DOMAIN call.out.telemetry.null_deltas = {}
        /\ DOMAIN call.out.telemetry.changed_counts = {}
        /\ call.out.invalid = {}
        /\ call.out.keep = [k \in 1..Len(call.arg.rows) |-> k]
        /\ ~call.out.flagged

\* level none on a chunk large enough for the gate, with the gate and the
\* skip switched on, whose rows hold a short cnpj_basico and a wrong check
\* digit
C29_Witness ==
    /\ call.done
    /\ call.arg.level = "none"
    /\ call.arg.cfg.enable_quality_gates
    /\ call.arg.cfg.skip_invalid_estabelecimentos_cnpj
    /\ Len(call.arg.rows) >= gate_min_rows
    /\ \A k \in 1..Len(call.arg.rows) :
          /\ Len(call.arg.rows[k].cnpj_basico) = 3
          /\ call.arg.rows[k].cnpj_dv = <<"9", "6">>

(***************************************************************************)
(* The downloader: one download_file task per archive, under tenacity's    *)
(* retry, with the circuit breaker shared by the tasks                     *)
(***************************************************************************)

\* AsyncDownloader.circuit_break_threshold
circuit_break_threshold == 5

\* settings.retry_max_attempts, handed to stop_after_attempt
retry_max_attempts == 6

\* the number of archives listed, one task each
MaxTasks == 3

\* a destination file: absent, shorter than the archive, or as long as the
\* archive and then a sound zip or not
FileStates == {"absent", "partial", "corrupt", "valid"}

\* the check that accepts whatever is on disk
verify_zip_sync_lenient(file) == file # "absent"

\* verify_zip_sync: False for a missing file, a file that is no zip
\* (BadZipFile) and a zip with a bad member (testzip)
verify_zip_sync(file) == file = "valid"

\* dest_path.exists() and initial_size >= total_size, total_size being the
\* content-length of the HEAD answer, 0 when the request failed
already_downloaded(file, head) == head = "size" /\ file \in {"corrupt", "valid"}

\* the except branch of download_file: one more consecutive error, the
\* circuit opens at the threshold
on_error(d) ==
    LET n == d.consecutive_errors + 1
    IN [d EXCEPT !.consecutive_errors = n,
                 !.circuit_open = IF n >= circuit_break_threshold THEN TRUE ELSE @,
                 !.opened = IF n >= circuit_break_threshold /\ ~d.circuit_open
                            THEN @ + 1 ELSE @]

\* tenacity around download_file: the exception of attempt n is followed by
\* another attempt while n < retry_max_attempts, by RetryError after that
after_error(task, cause) ==
    IF task.attempt < retry_max_attempts
    THEN [task EXCEPT !.pc = "pending", !.attempt = @ + 1, !.last = cause]
    ELSE [task EXCEPT !.pc = "failed", !.last = cause]

\* a task before its first attempt
NewTask == [pc |-> "pending", attempt |-> 1, mode |-> "wb", since |-> 0, last |-> "none"]

\* the pipeline state and the loader while another stage runs under cfg
BesideDownloader(cfg) ==
    /\ data = EmptyData
    /\ ret = [op |-> "init", arg |-> None, val |-> FALSE]
    /\ RunIdle
    /\ settings = cfg
    /\ db = [naturezas_juridicas |-> {}, qualificacoes_socios |-> {}, empresas |-> <<>>]
    /\ conn = [open |-> FALSE, pending |-> <<>>, commits |-> 0, rollbacks |-> 0]
    /\ DOMAIN_CACHE = EmptyDict
    /\ lpc = "idle"
    /\ chunk = [i |-> 0, rows |-> <<>>]
    /\ totals = [total_rows |-> 0, chunks_processed |-> 0, quality_gate_chunks |-> 0,
                 read |-> 0, short |-> FALSE]
    /\ files = [telemetry |-> <<>>, quarantine |-> <<>>, summary |-> <<>>]
    /\ error = NoError
    /\ hist = <<>>
    /\ processing = [order |-> <<>>, loaded |-> {}]

\* the downloader after __init__ with the rate limiter off, n tasks gathered,
\* the destination directory as an earlier run left it
DownloaderInit(n, on_disk, verify, answers) ==
    /\ BesideDownloader([verify_zip_integrity |-> verify])
    /\ call = [fn |-> "none", arg |-> <<>>, out |-> <<>>, done |-> FALSE]
    /\ downloader = [rate_limit |-> 0, tokens |-> 0, last_token_update |-> 0,
                     consecutive_errors |-> 0, circuit_open |-> FALSE, opened |-> 0]
    /\ tasks = [t \in 1..n |-> NewTask]
    /\ dest_dir = on_disk
    /\ remote = answers
    /\ now = 0

\* one archive, any file left on disk, verification on or off, a site that
\* can answer anything
InitDownload ==
    \E file \in FileStates, verify \in Bool :
        DownloaderInit(1, <<file>>, verify,
                       [head |-> {"size", "none"},
                        get |-> {"error", "416", "200", "206"},
                        stream |-> {"broken", "partial", "corrupt", "valid"}])

\* download_file up to its first await: _check_circuit_breaker sleeps when
\* the circuit is open, else the HEAD request is sent
StartAttempt(t) ==
    /\ tasks[t].pc = "pending"
    /\ tasks' = [tasks EXCEPT ![t].pc = IF downloader.circuit_open THEN "cooling" ELSE "head",
                              ![t].since = downloader.opened]
    /\ UNCHANGED <<downloader, dest_dir, remote, now>>
    /\ UNCHANGED <<psVars, runVars, loadVars, call>>

\* the sleep of _check_circuit_breaker is over: the circuit is closed, the
\* count reset, and the HEAD request is sent
CoolDownOver(t) ==
    /\ tasks[t].pc = "cooling"
    /\ downloader' = [downloader EXCEPT !.circuit_open = FALSE, !.consecutive_errors = 0]
    /\ tasks' = [tasks EXCEPT ![t].pc = "head"]
    /\ UNCHANGED <<dest_dir, remote, now>>
    /\ UNCHANGED <<psVars, runVars, loadVars, call>>

\* the HEAD answer and the look at the destination: a file already as long
\* as the archive is verified and kept (return True) or unlinked, or kept
\* unverified; else the GET request is sent, with a Range header when a
\* file is there
HeadAnswered(t, head) ==
    /\ tasks[t].pc = "head"
    /\ LET file == dest_dir[t]
           there == already_downloaded(file, head)
           kept == there /\ (settings.verify_zip_integrity => verify_zip_sync(file))
       IN IF kept
          THEN /\ downloader' = [downloader EXCEPT !.consecutive_errors = 0]
               /\ tasks' = [tasks EXCEPT ![t].pc = "done", ![t].last = "skipped"]
               /\ UNCHANGED dest_dir
          ELSE /\ dest_dir' = [dest_dir EXCEPT ![t] = IF there THEN "absent" ELSE @]
               /\ tasks' = [tasks EXCEPT ![t].pc = "get",
                                         ![t].mode = IF dest_dir'[t] = "absent"
                                                     THEN "wb" ELSE "ab"]
               /\ UNCHANGED downloader
    /\ UNCHANGED <<remote, now>>
    /\ UNCHANGED <<psVars, runVars, loadVars, call>>

\* the GET answer (a 416 is followed by a request without Range, answered
\* by again), the file opened and the response streamed into it, the
\* verification of what was written, and the return or the except branch
GetAnswered(t, status, again, stream) ==
    /\ tasks[t].pc = "get"
    /\ LET final == IF status = "416" THEN again ELSE status
           mode == IF status = "416" \/ (final = "200" /\ tasks[t].mode = "ab")
                   THEN "wb" ELSE tasks[t].mode
           written == IF stream = "broken" THEN "partial"
                      ELSE IF mode = "ab" /\ dest_dir[t] = "partial" /\ stream = "valid"
                      THEN "valid"
                      ELSE IF mode = "ab" THEN "corrupt"
                      ELSE stream
           refused == settings.verify_zip_integrity /\ ~verify_zip_sync(written)
       IN IF final \in {"error", "416"}
          THEN /\ downloader' = on_error(downloader)
               /\ tasks' = [tasks EXCEPT ![t] = after_error(@, "network")]
               /\ UNCHANGED dest_dir
          ELSE IF stream = "broken"
          THEN /\ downloader' = on_error(downloader)
               /\ tasks' = [tasks EXCEPT ![t] = after_error(@, "network")]
               /\ dest_dir' = [dest_dir EXCEPT ![t] = written]
          ELSE IF refused
          THEN /\ downloader' = on_error(downloader)
               /\ tasks' = [tasks EXCEPT ![t] = after_error(@, "integrity")]
               /\ dest_dir' = [dest_dir EXCEPT ![t] = "absent"]
          ELSE /\ downloader' = [downloader EXCEPT !.consecutive_errors = 0]
               /\ tasks' = [tasks EXCEPT ![t].pc = "done", ![t].last = "downloaded"]
               /\ dest_dir' = [dest_dir EXCEPT ![t] = written]
    /\ UNCHANGED <<remote, now>>
    /\ UNCHANGED <<psVars, runVars, loadVars, call>>

NextDownload ==
    \/ \E t \in DOMAIN tasks : StartAttempt(t)
    \/ \E t \in DOMAIN tasks : CoolDownOver(t)
    \/ \E t \in DOMAIN tasks, head \in remote.head : HeadAnswered(t, head)
    \/ \E t \in DOMAIN tasks, status \in remote.get, again \in remote.get \ {"206"},
          stream \in remote.stream : GetAnswered(t, status, again, stream)

SpecDownload == InitDownload /\ [][NextDownload]_vars

\* C32: with verification on, a task whose last attempt ended on a failed
\* integrity check is in error (awaiting its retry, or given up) and its
\* destination file does not exist until the next response is written; and a
\* task that returned True, having kept or downloaded its file, has a sound
\* zip on disk
C32_Integrity ==
    \A t \in DOMAIN tasks :
        /\ tasks[t].last = "integrity" =>
               /\ settings.verify_zip_integrity
               /\ tasks[t].pc \in {"pending", "cooling", "head", "get", "failed"}
               /\ dest_dir[t] = "absent"
        /\ (tasks[t].pc = "done" /\ settings.verify_zip_integrity) =>
               dest_dir[t] = "valid"

\* the last attempt allowed wrote a file that failed the check: the file is
\* gone and the task ended in error
C32_Witness ==
    /\ settings.verify_zip_integrity
    /\ tasks[1].pc = "failed"
    /\ tasks[1].attempt = retry_max_attempts
    /\ tasks[1].last = "integrity"
    /\ dest_dir[1] = "absent"

\* MaxTasks archives, none on disk, fetched at once from a site whose
\* answers are an error or a sound file
InitCircuit ==
    DownloaderInit(MaxTasks, [t \in 1..MaxTasks |-> "absent"], TRUE,
                   [head |-> {"size"}, get |-> {"error", "200"}, stream |-> {"valid"}])

SpecCircuit == InitCircuit /\ [][NextDownload]_vars

\* C39: (1) the circuit goes from closed to open exactly in a step that takes
\* the count of consecutive errors to 5, and while it is closed the count is
\* below 5; (2) a task that returns True leaves the count at zero; (3) a task
\* that starts an attempt while the circuit is open sends nothing before its
\* cool-down is over; (4) a task whose cool-down ends closes the circuit only
\* if the circuit has not opened anew since the task began to wait
C39_Original ==
    /\ [](~downloader.circuit_open =>
              downloader.consecutive_errors < circuit_break_threshold)
    /\ [][/\ (~downloader.circuit_open /\ downloader'.circuit_open)
               <=> (/\ downloader.consecutive_errors = circuit_break_threshold - 1
                    /\ downloader'.consecutive_errors = circuit_break_threshold
                    /\ ~downloader.circuit_open)
          /\ \A t \in DOMAIN tasks :
                 /\ (tasks[t].pc # "done" /\ tasks'[t].pc = "done") =>
                        downloader'.consecutive_errors = 0
                 /\ (tasks[t].pc = "pending" /\ tasks'[t].pc # "pending"
                       /\ downloader.circuit_open) => tasks'[t].pc = "cooling"
                 /\ (tasks[t].pc = "cooling" /\ tasks'[t].pc # "cooling"
                       /\ downloader.circuit_open) =>
                        tasks[t].since = downloader.opened]_vars

(***************************************************************************)
(* The download rate limiter: the token bucket shared by the tasks         *)
(***************************************************************************)

\* settings.download_chunk_size, the longest chunk handed to the limiter
download_chunk_size == 3

\* the largest settings.rate_limit_per_sec tried
MaxRate == 4

\* the refill of _wait_for_token: rate_limit tokens per second, elapsed being
\* counted in units of 1 / rate_limit seconds, capped at rate_limit
refilled(d, elapsed) ==
    IF d.tokens + elapsed < d.rate_limit THEN d.tokens + elapsed ELSE d.rate_limit

\* a task streaming a response: between two chunks
StreamingTask == [pc |-> "streaming", chunk_size |-> 0, left |-> 0]

\* two tasks streaming under a positive rate limit, the bucket full as
\* __init__ leaves it
InitToken ==
    /\ BesideDownloader([download_chunk_size |-> download_chunk_size])
    /\ call = [fn |-> "none", arg |-> <<>>, out |-> <<>>, done |-> FALSE]
    /\ \E rate \in 1..MaxRate :
          downloader = [rate_limit |-> rate, tokens |-> rate, last_token_update |-> 0,
                        consecutive_errors |-> 0, circuit_open |-> FALSE, opened |-> 0]
    /\ tasks = <<StreamingTask, StreamingTask>>
    /\ dest_dir = <<"partial", "partial">>
    /\ remote = [head |-> {}, get |-> {}, stream |-> {}]
    /\ now = 0

\* one turn of the loop of _wait_for_token for a chunk of n bytes: refill,
\* then take the tokens and return, or sleep for the time the missing
\* tokens take.  last_token_update becomes the present, from which the clock
\* counts anew.
token_loop(t, n) ==
    LET have == refilled(downloader, now - downloader.last_token_update)
    IN /\ downloader' = [downloader EXCEPT
                            !.tokens = IF have >= n THEN have - n ELSE have,
                            !.last_token_update = 0]
       /\ now' = 0
       /\ tasks' = [tasks EXCEPT
                       ![t] = IF have >= n
                              THEN [pc |-> "returned", chunk_size |-> n, left |-> 0]
                              ELSE [pc |-> "sleeping", chunk_size |-> n,
                                    left |-> n - have]]

\* the stream yields a chunk of n bytes and _wait_for_token(n) is called
WaitForToken(t, n) ==
    /\ tasks[t].pc = "streaming"
    /\ token_loop(t, n)
    /\ UNCHANGED <<dest_dir, remote>>
    /\ UNCHANGED <<psVars, runVars, loadVars, call>>

\* asyncio.sleep(wait_time) is over and the loop goes round again
WakeUp(t) ==
    /\ tasks[t].pc = "sleeping"
    /\ tasks[t].left = 0
    /\ token_loop(t, tasks[t].chunk_size)
    /\ UNCHANGED <<dest_dir, remote>>
    /\ UNCHANGED <<psVars, runVars, loadVars, call>>

\* the chunk is written and the stream is asked for the next one
ChunkWritten(t) ==
    /\ tasks[t].pc = "returned"
    /\ tasks' = [tasks EXCEPT ![t] = StreamingTask]
    /\ UNCHANGED <<downloader, dest_dir, remote, now>>
    /\ UNCHANGED <<psVars, runVars, loadVars, call>>

\* time passes by one unit: the sleepers have one unit less to sleep.  The
\* clock stops rate_limit units after the last refill, beyond which the
\* next refill fills the bucket whatever the time.
Tick ==
    /\ now' = IF now < downloader.rate_limit THEN now + 1 ELSE now
    /\ tasks' = [t \in DOMAIN tasks |->
                    [tasks[t] EXCEPT !.left = IF @ > 0 THEN @ - 1 ELSE 0]]
    /\ UNCHANGED <<downloader, dest_dir, remote>>
    /\ UNCHANGED <<psVars, runVars, loadVars, call>>

NextToken ==
    \/ \E t \in DOMAIN tasks, n \in 1..download_chunk_size : WaitForToken(t, n)
    \/ \E t \in DOMAIN tasks : WakeUp(t)
    \/ \E t \in DOMAIN tasks : ChunkWritten(t)
    \/ Tick

SpecToken ==
    /\ InitToken
    /\ [][NextToken]_vars
    /\ WF_vars(Tick)
    /\ \A t \in {1, 2} : WF_vars(WakeUp(t))

\* C38: under a positive rate limit every call of the limiter returns,
\* whatever the chunk size up to download_chunk_size, and the tokens are
\* never below zero nor above the rate limit
C38_Original ==
    /\ [](downloader.tokens >= 0 /\ downloader.tokens <= downloader.rate_limit)
    /\ \A t \in {1, 2} : (tasks[t].pc = "sleeping") ~> (tasks[t].pc = "returned")

(***************************************************************************)
(* Consolidation: the CSV files of a directory concatenated into one       *)
(***************************************************************************)

\* the bytes told apart: carriage return, line feed, the UTF-8 byte order
\* mark (three bytes, taken as one), any other byte
Bytes == {"CR", "LF", "BOM", "x"}

\* the longest source file tried
MaxBytes == 3

\* the size of a read, 64 KiB in the code
ReadSize == 2

\* the files up to n bytes long
FilesUpTo(n) == UNION {[1..k -> Bytes] : k \in 0..n}

\* Path.suffix.lower() of the names in use
suffix_lower(name) ==
    IF name \in {"a.csv", "b.CSV", "dir.csv"} THEN ".csv" ELSE ".txt"

\* every CSV file of the directory, the output among them
get_source_csv_files_all(directory, output_filename) ==
    SelectSeq(directory.names, LAMBDA f : suffix_lower(f) = ".csv")

\* get_source_csv_files: the files of the directory, in the order glob
\* yields them, that end in .csv and are not the output
get_source_csv_files(directory, output_filename) ==
    SelectSeq(directory.names,
              LAMBDA f : f # output_filename /\ suffix_lower(f) = ".csv")

\* bytes.replace(b"\r\n", b"\n"): the pairs are found from the left, the
\* search going on after each pair replaced
RECURSIVE replace_crlf(_)
replace_crlf(bs) ==
    IF Len(bs) < 2 THEN bs
    ELSE IF bs[1] = "CR" /\ bs[2] = "LF"
    THEN <<"LF">> \o replace_crlf(SubSeq(bs, 3, Len(bs)))
    ELSE <<bs[1]>> \o replace_crlf(Tail(bs))

\* what is written for one source file: it is read ReadSize bytes at a time,
\* the mark is stripped from the first read, each read is normalised alone
RECURSIVE copy_file(_, _, _)
copy_file(bs, first, cfg) ==
    IF bs = <<>> THEN <<>>
    ELSE LET n == IF Len(bs) < ReadSize THEN Len(bs) ELSE ReadSize
             read == SubSeq(bs, 1, n)
             stripped == IF first /\ cfg.strip_bom /\ read[1] = "BOM"
                         THEN Tail(read) ELSE read
             written == IF cfg.normalize_line_endings
                        THEN replace_crlf(stripped) ELSE stripped
         IN written \o copy_file(SubSeq(bs, n + 1, Len(bs)),
                                 first /\ ~cfg.strip_bom, cfg)

\* the sources written one after the other
RECURSIVE copy_files(_, _, _)
copy_files(source_files, directory, cfg) ==
    IF source_files = <<>> THEN <<>>
    ELSE copy_file(directory.content[Head(source_files)], TRUE, cfg)
           \o copy_files(Tail(source_files), directory, cfg)

\* concatenate_files_in_directory on the directory dir: nothing without a
\* source, else dir.csv is created or overwritten
concatenate_files_in_directory(directory, cfg) ==
    LET output_filename == "dir.csv"
        source_files == get_source_csv_files(directory, output_filename)
    IN IF source_files = <<>> THEN directory
       ELSE [names |-> IF \E i \in 1..Len(directory.names) :
                              directory.names[i] = output_filename
                       THEN directory.names
                       ELSE Append(directory.names, output_filename),
             content |-> [directory.content EXCEPT
                             ![output_filename] =
                                 copy_files(source_files, directory, cfg)]]

\* a directory as extraction left it, its names in an order glob can
\* yield: a.csv and c.txt and a one-byte b.CSV, with or without a dir.csv of
\* an earlier release, or c.txt alone
InitConsolidate ==
    /\ \E cfg \in [strip_bom : Bool, normalize_line_endings : Bool] :
          BesideDownloader(cfg)
    /\ DownloadIdle
    /\ \E names \in {<<"a.csv", "b.CSV", "c.txt">>,
                     <<"dir.csv", "b.CSV", "c.txt", "a.csv">>,
                     <<"c.txt">>},
          a \in FilesUpTo(MaxBytes), b \in FilesUpTo(1) :
          LET directory == [names |-> names,
                            content |-> [f \in {"a.csv", "b.CSV", "c.txt", "dir.csv"} |->
                                             IF f = "a.csv" THEN a
                                             ELSE IF f = "b.CSV" THEN b
                                             ELSE IF f = "c.txt" THEN <<"x">>
                                             ELSE IF f = names[1] THEN <<"x", "LF">>
                                             ELSE <<>>]]
          IN call = [fn |-> "concatenate_files_in_directory", arg |-> directory,
                     out |-> directory, done |-> FALSE, runs |-> 0]

\* run_consolidation on the directory as the last run left it
RunConsolidation ==
    /\ call.fn = "concatenate_files_in_directory"
    /\ call.runs < 2
    /\ call' = [call EXCEPT !.arg = call.out,
                            !.out = concatenate_files_in_directory(call.out, settings),
                            !.done = TRUE,
                            !.runs = @ + 1]
    /\ UNCHANGED <<psVars, runVars, loadVars, dlVars>>

NextConsolidate == RunConsolidation

SpecConsolidate == InitConsolidate /\ [][NextConsolidate]_vars

\* the consolidated file was written by the last run
Consolidated ==
    /\ call.done
    /\ get_source_csv_files(call.arg, "dir.csv") # <<>>

\* the bytes hold a carriage return followed by a line feed
has_crlf(bs) == \E i \in 1..(Len(bs) - 1) : bs[i] = "CR" /\ bs[i + 1] = "LF"

\* C33: with normalize_line_endings set, the consolidated file holds no
\* carriage return followed by a line feed, whatever the sources
C33_Original ==
    (Consolidated /\ settings.normalize_line_endings) =>
        ~has_crlf(call.out.content["dir.csv"])

\* C34: the output is not among the sources of a run, and a second run on
\* the directory the first one left, the sources still there, writes the
\* output the first one wrote
C34_SecondRun ==
    /\ \A i \in 1..Len(get_source_csv_files(call.out, "dir.csv")) :
           get_source_csv_files(call.out, "dir.csv")[i] # "dir.csv"
    /\ call.runs = 2 =>
           /\ call.out.content["dir.csv"] = call.arg.content["dir.csv"]
           /\ call.out.names = call.arg.names

\* the second run on a directory with two sources that are not empty wrote
\* again the three bytes the first run wrote
C34_Witness ==
    /\ call.runs = 2
    /\ Len(call.out.content["a.csv"]) = 2
    /\ Len(call.out.content["b.CSV"]) = 1
    /\ ~settings.strip_bom
    /\ ~settings.normalize_line_endings
    /\ call.out.names = <<"a.csv", "b.CSV", "c.txt", "dir.csv">>
    /\ Len(call.out.content["dir.csv"]) = 3
    /\ call.arg.content["dir.csv"] = call.out.content["dir.csv"]

(***************************************************************************)
(* The stage functions as run_pipeline and --step call them                *)
(***************************************************************************)

\* what can happen in a stage function: its work is done, the database
\* refuses the connection, an Exception is raised in its work, the user
\* interrupts it (KeyboardInterrupt), the process is killed
StageEvents == {"finished", "no_connection", "error", "interrupt", "killed"}

\* run_download: KeyboardInterrupt is logged and the function returns, any
\* Exception is logged and raised again
run_download(event) ==
    CASE event \in {"finished", "interrupt"} -> "return"
      [] event \in {"error", "no_connection"} -> "raise"
      [] OTHER -> "killed"

\* run_extraction: the errors of extract_single_zip are logged there
run_extraction(event) ==
    CASE event \in {"finished", "error", "no_connection"} -> "return"
      [] event = "interrupt" -> "interrupt"
      [] OTHER -> "killed"

\* run_consolidation: the Exception is logged and raised again
run_consolidation(event) ==
    CASE event = "finished" -> "return"
      [] event \in {"error", "no_connection"} -> "raise"
      [] event = "interrupt" -> "interrupt"
      [] OTHER -> "killed"

\* run_loader and run_constraints: return when connect fails; any Exception
\* in the work is logged and rolled back, and the function returns
run_loader(event) ==
    CASE event \in {"finished", "no_connection", "error"} -> "return"
      [] event = "interrupt" -> "interrupt"
      [] OTHER -> "killed"

\* PIPELINE_MAP[step] called while event happens: how the call ends
step_func(step, event) ==
    CASE step = "download" -> run_download(event)
      [] step = "extract" -> run_extraction(event)
      [] step = "consolidate" -> run_consolidation(event)
      [] OTHER -> run_loader(event)

\* handlers that record failed for an Exception only
status_after_exception(result) ==
    CASE result = "return" -> "completed"
      [] result = "raise" -> "failed"
      [] OTHER -> None

\* the status run_pipeline and --step record when the stage function ends:
\* completed after a return, failed in the handlers of KeyboardInterrupt and
\* Exception, nothing (None) when the process is killed
status_after(result) ==
    CASE result = "return" -> "completed"
      [] result \in {"raise", "interrupt"} -> "failed"
      [] OTHER -> None

\* python -m src before its first invocation
InitStages == InitRun /\ frontend = "module"

\* run_pipeline: the stage function is called, event happens in it, and the
\* way it ends is recorded
StageEnds(event) ==
    /\ pc = "running"
    /\ LET step == PIPELINE_MAP[inv.i]
           result == step_func(step, event)
       IN  /\ runs' = IF status_after(result) = None THEN runs
                      ELSE PipelineState_update(runs, SessionKey, step,
                                                status_after(result))
           /\ pc' = IF result = "return" THEN "pipeline" ELSE "done"
           /\ inv' = IF result = "return" THEN [inv EXCEPT !.i = inv.i + 1] ELSE inv
           /\ call' = [fn |-> step, arg |-> event, out |-> result, done |-> TRUE]
    /\ UNCHANGED <<dlVars, loadVars, data, ret, frontend, cfg_target, statuses, calls,
                   skipped>>

\* python -m src --step <stage>: the stage function is called, event happens
\* in it, and the way it ends is recorded
StepEnds(event) ==
    /\ pc = "step_running"
    /\ LET result == step_func(inv.step, event)
       IN  /\ runs' = IF status_after(result) = None THEN runs
                      ELSE PipelineState_update(runs, SessionKey, inv.step,
                                                status_after(result))
           /\ call' = [fn |-> inv.step, arg |-> event, out |-> result, done |-> TRUE]
    /\ pc' = "done"
    /\ UNCHANGED <<dlVars, loadVars, data, ret, frontend, cfg_target, inv, statuses,
                   calls, skipped>>

NextStages ==
    \/ Exit
    \/ \E resume \in Bool, force \in Bool, dry_run \in Bool, latest \in RemoteAnswers :
         StartPipeline(resume, force, dry_run, latest)
    \/ SkipStage
    \/ BeginStage
    \/ \E event \in StageEvents : StageEnds(event)
    \/ FinishPipeline
    \/ \E step \in PipelineStages : BeginStep(step)
    \/ \E event \in StageEvents : StepEnds(event)

SpecStages == InitStages /\ [][NextStages]_vars

\* C35: a stage goes to completed only when its function's work finished
\* without an error
C35_Original ==
    [][\A step \in PipelineStages :
           (/\ StatusOf(runs, SessionKey, step) # "completed"
            /\ StatusOf(runs', SessionKey, step) = "completed")
           => call'.arg = "finished"]_vars

\* the stage whose function the invocation called last
Running == IF inv.entry = "pipeline" THEN PIPELINE_MAP[inv.i] ELSE inv.step

Passed == {PIPELINE_MAP[k] : k \in 1..(inv.i - 1)}

====
